---- MODULE Spec2Model ----
(***************************************************************************)
(* A model of ignoro's template engine (src/ignoro/api.py): Template,      *)
(* TemplateList and Gitignore, their text format and their parsers.        *)
(*                                                                         *)
(* Text is a sequence of chunks.  A chunk is a piece of a Python str: the  *)
(* newline "\n", the space " ", an ordinary non-blank piece such as "x",   *)
(* a template banner "### Foo ###" or one of the document marker lines.    *)
(* The str the program sees is the concatenation of the chunks, so         *)
(* str.strip, str.splitlines, "\n".join and the regular expressions are    *)
(* modelled by what they do to that concatenation.                         *)
(***************************************************************************)
EXTENDS Integers, Sequences, FiniteSets, TLC

VARIABLES data, text, last, result, fs

vars == <<data, text, last, result, fs>>

(***************************************************************************)
(* Bounds of the model.                                                    *)
(***************************************************************************)
MaxText == 4

MaxLen == 2

\* The depth of calls at which the interpreter raises RecursionError.
RecursionLimit == 3

\* The number of commands run one after the other.
MaxRuns == 2

(***************************************************************************)
(* Python values.                                                          *)
(***************************************************************************)
\* Optional[str]: None is the empty tuple, a str s is <<s>>.
None == <<>>

Some(v) == <<v>>

IsNone(o) == o = <<>>

Min(a, b) == IF a < b THEN a ELSE b

Max(a, b) == IF a > b THEN a ELSE b

\* s[a:b] of Python for a sequence s (indices from 0, negative ones from the end).
SliceIndex(i, n) == IF i < 0 THEN Max(n + i, 0) ELSE Min(i, n)

Slice(s, a, b) ==
    LET lo == SliceIndex(a, Len(s))
        hi == SliceIndex(b, Len(s))
    IN  IF lo >= hi THEN <<>> ELSE SubSeq(s, lo + 1, hi)

\* s[a:]
SliceFrom(s, a) == Slice(s, a, Len(s))

(***************************************************************************)
(* str operations on text.                                                 *)
(***************************************************************************)
NL == "\n"

SP == " "

IsSpace(c) == c \in {NL, SP}

RECURSIVE LStrip(_)
LStrip(t) ==
    IF t = <<>> THEN t
    ELSE IF IsSpace(Head(t)) THEN LStrip(Tail(t)) ELSE t

RECURSIVE RStrip(_)
RStrip(t) ==
    IF t = <<>> THEN t
    ELSE IF IsSpace(t[Len(t)]) THEN RStrip(SubSeq(t, 1, Len(t) - 1)) ELSE t

\* str.strip()
Strip(t) == RStrip(LStrip(t))

\* The position of the first newline of t, 0 when it has none.
FirstNL(t) ==
    IF \E i \in 1..Len(t) : t[i] = NL
    THEN CHOOSE i \in 1..Len(t) : t[i] = NL /\ \A j \in 1..(i - 1) : t[j] # NL
    ELSE 0

\* str.splitlines(): the lines without their newline; a final newline opens no line.
RECURSIVE SplitLines(_)
SplitLines(t) ==
    IF t = <<>> THEN <<>>
    ELSE LET k == FirstNL(t)
         IN  IF k = 0 THEN <<t>>
             ELSE <<SubSeq(t, 1, k - 1)>> \o SplitLines(SubSeq(t, k + 1, Len(t)))

\* "".join(f"{line}\n" for line in lines)
RECURSIVE JoinEach(_)
JoinEach(lines) ==
    IF lines = <<>> THEN <<>>
    ELSE Head(lines) \o <<NL>> \o JoinEach(Tail(lines))

\* "\n".join(parts)
RECURSIVE JoinNL(_)
JoinNL(parts) ==
    IF parts = <<>> THEN <<>>
    ELSE IF Len(parts) = 1 THEN Head(parts)
    ELSE Head(parts) \o <<NL>> \o JoinNL(Tail(parts))

(***************************************************************************)
(* Names: str.lower() and str.capitalize() on the names of the model.      *)
(***************************************************************************)
\* The names given to Template(...): two spellings of one name, another name,
\* and a name that holds a space.
RawNames == {"foo", "Foo", "bar", "a b"}

Lower(n) ==
    CASE n = "Foo" -> "foo"
      [] n = "FOO" -> "foo"
      [] n = "Bar" -> "bar"
      [] n = "A b" -> "a b"
      [] OTHER -> n

Capitalize(n) ==
    CASE n = "foo" -> "Foo"
      [] n = "FOO" -> "Foo"
      [] n = "bar" -> "Bar"
      [] n = "a b" -> "A b"
      [] OTHER -> n

\* The strings \S+ can match among the names of the model.
NonSpaceNames == {"foo", "Foo", "FOO", "bar", "Bar"}

\* f"### {name} ###"
Banner(n) == "### " \o n \o " ###"

\* re.compile(r"^### (\S+) ###$"): a pattern is the set of the lines it matches.
TemplateHeaderPattern == {<<Banner(n)>> : n \in NonSpaceNames}

\* pattern.search(line) for the template header pattern
MatchTemplateHeader(line) == line \in TemplateHeaderPattern

\* match.group(1)
HeaderGroup(line) == CHOOSE n \in NonSpaceNames : line[1] = Banner(n)

\* The characters of the names and search terms of the model.
Chars(n) ==
    CASE n = "" -> <<>>
      [] n = "o" -> <<"o">>
      [] n = "FO" -> <<"F", "O">>
      [] n = "ar" -> <<"a", "r">>
      [] n = "x" -> <<"x">>
      [] n = "foo" -> <<"f", "o", "o">>
      [] n = "Foo" -> <<"F", "o", "o">>
      [] n = "FOO" -> <<"F", "O", "O">>
      [] n = "bar" -> <<"b", "a", "r">>
      [] n = "Bar" -> <<"B", "a", "r">>
      [] n = "a b" -> <<"a", " ", "b">>
      [] n = "A b" -> <<"A", " ", "b">>

\* str.lower() character by character
LowerChar(c) ==
    CASE c = "A" -> "a"
      [] c = "B" -> "b"
      [] c = "F" -> "f"
      [] c = "O" -> "o"
      [] OTHER -> c

LowerChars(cs) == [i \in 1..Len(cs) |-> LowerChar(cs[i])]

\* ord(c)
Ord(c) ==
    CASE c = " " -> 32
      [] c = "A" -> 65
      [] c = "B" -> 66
      [] c = "F" -> 70
      [] c = "O" -> 79
      [] c = "a" -> 97
      [] c = "b" -> 98
      [] c = "f" -> 102
      [] c = "o" -> 111
      [] c = "r" -> 114
      [] c = "x" -> 120

\* s < t for two str, given by their characters
RECURSIVE CharsLt(_, _)
CharsLt(s, t) ==
    IF t = <<>> THEN FALSE
    ELSE IF s = <<>> THEN TRUE
    ELSE IF Head(s) # Head(t) THEN Ord(Head(s)) < Ord(Head(t))
    ELSE CharsLt(Tail(s), Tail(t))

\* t.startswith(p)
IsPrefix(p, t) == Len(p) <= Len(t) /\ SubSeq(t, 1, Len(p)) = p

\* p in t
IsInfix(p, t) ==
    \E k \in 0..(Len(t) - Len(p)) : SubSeq(t, k + 1, k + Len(p)) = p

(***************************************************************************)
(* _FindMetadataMixin._find_metadata: the indices (from 0) of the lines    *)
(* the pattern matches, in order.                                          *)
(***************************************************************************)
FindMetadata(lines, pattern) ==
    SelectSeq([i \in 1..Len(lines) |-> i - 1], LAMBDA i : lines[i + 1] \in pattern)

(***************************************************************************)
(* Template.                                                               *)
(***************************************************************************)
\* Template.__init__ that keeps the name as it is given.
TemplateKeepsCase(name, body) == [name |-> name, body |-> body]

\* Template.__init__
Template(name, body) == [name |-> Lower(name), body |-> body]

\* self.header
Header(t) == Banner(Capitalize(t.name))

\* What a call returns or raises.
Return(v) == [exc |-> "", msg |-> "", val |-> v]

Raise(exc, msg) == [exc |-> exc, msg |-> msg, val |-> <<>>]

\* Template.parse without its check for several headers.
TemplateParseNoMultiple(content) ==
    LET lines == SplitLines(Strip(content))
        headers == FindMetadata(lines, TemplateHeaderPattern)
    IN  IF Len(headers) = 0 THEN Raise("ParseError", "Missing header")
        ELSE LET index == headers[1]
                 name == HeaderGroup(lines[index + 1])
                 body == JoinEach(SliceFrom(lines, index + 1))
             IN  IF Strip(body) = <<>> THEN Raise("ParseError", "Missing body")
                 ELSE Return(Template(name, Some(body)))

\* Template.parse
TemplateParse(content) ==
    LET lines == SplitLines(Strip(content))
        headers == FindMetadata(lines, TemplateHeaderPattern)
    IN  IF Len(headers) = 0 THEN Raise("ParseError", "Missing header")
        ELSE IF Len(headers) > 1 THEN Raise("ParseError", "Multiple headers")
        ELSE LET index == headers[1]
                 name == HeaderGroup(lines[index + 1])
                 body == JoinEach(SliceFrom(lines, index + 1))
             IN  IF Strip(body) = <<>> THEN Raise("ParseError", "Missing body")
                 ELSE Return(Template(name, Some(body)))

(***************************************************************************)
(* The remote catalog (requests.get) and the lazy body of a Template.      *)
(***************************************************************************)
\* How a requests.get call ends: a response with a success status, or one of the
\* three failures the code handles.
Modes == {"ok", "ConnectionError", "Timeout", "HTTPError"}

BaseUrl == "https://www.toptal.com/developers/gitignore/api"

\* The text the catalog holds for a name.
RemoteContent(name) ==
    CASE name = "foo" -> <<"f", NL, NL, "g">>
      [] name = "bar" -> <<"b">>
      [] OTHER -> <<"o">>

\* response.text of a template request: the catalog's wrapper around the banner
\* and the content.
RemoteResponse(name) ==
    <<"# Created by " \o BaseUrl \o "/" \o name, NL,
      "# Edit at https://www.toptal.com/developers/gitignore?templates=" \o name, NL,
      NL,
      Banner(Capitalize(name)), NL>>
    \o RemoteContent(name)
    \o <<NL, NL, "# End of " \o BaseUrl \o "/" \o name>>

\* err.response.reason of a failure status.
Reason == "Not Found"

\* Template._strip
StripResponse(response) == JoinNL(Slice(SplitLines(response), 3, -2))

\* What reading a property gives: the outcome, the number of requests.get calls
\* made, and the Template as the read leaves it.
Outcome(r, nreq, self) ==
    [exc |-> r.exc, msg |-> r.msg, val |-> r.val, nreq |-> nreq, self |-> self]

\* Template.body that fetches on every read.
TemplateBodyNoCache(self, mode) ==
    LET url == BaseUrl \o "/" \o Lower(self.name)
    IN  IF mode = "ConnectionError"
        THEN Outcome(Raise("ApiError", "Failed to connect to '" \o url \o "'"), 1, self)
        ELSE IF mode = "Timeout"
        THEN Outcome(Raise("ApiError", "Connection to '" \o url \o "' timed out"), 1, self)
        ELSE IF mode = "HTTPError"
        THEN Outcome(Raise("ApiError", "Failed to fetch '" \o url \o "' because " \o Reason), 1, self)
        ELSE LET parsed == TemplateParse(StripResponse(RemoteResponse(Lower(self.name))))
             IN  IF parsed.exc # "" THEN Outcome(parsed, 1, self)
                 ELSE Outcome(Return(parsed.val.body[1]), 1,
                              [self EXCEPT !.body = parsed.val.body])

\* Template.body that keeps an empty body after a failed request.
TemplateBodyKeepsFailure(self, mode) ==
    IF ~IsNone(self.body) THEN Outcome(Return(self.body[1]), 0, self)
    ELSE IF mode = "ok" THEN TemplateBodyNoCache(self, mode)
    ELSE [TemplateBodyNoCache(self, mode) EXCEPT !.self = [self EXCEPT !.body = Some(<<>>)]]

\* Template.body (the property getter)
TemplateBody(self, mode) ==
    IF ~IsNone(self.body) THEN Outcome(Return(self.body[1]), 0, self)
    ELSE LET url == BaseUrl \o "/" \o Lower(self.name)
         IN  IF mode = "ConnectionError"
             THEN Outcome(Raise("ApiError", "Failed to connect to '" \o url \o "'"), 1, self)
             ELSE IF mode = "Timeout"
             THEN Outcome(Raise("ApiError", "Connection to '" \o url \o "' timed out"), 1, self)
             ELSE IF mode = "HTTPError"
             THEN Outcome(Raise("ApiError", "Failed to fetch '" \o url \o "' because " \o Reason),
                          1, self)
             ELSE LET parsed == TemplateParse(StripResponse(RemoteResponse(Lower(self.name))))
                  IN  IF parsed.exc # "" THEN Outcome(parsed, 1, self)
                      ELSE Outcome(Return(parsed.val.body[1]), 1,
                                   [self EXCEPT !.body = parsed.val.body])

\* Template.body (the property setter)
TemplateSetBody(self, value) == [self EXCEPT !.body = Some(value)]

\* Template.__str__: f"{self.header}\n{self.body}", the body read through the property.
TemplateStrLazy(self, mode) ==
    LET b == TemplateBody(self, mode)
    IN  IF b.exc # "" THEN b
        ELSE [b EXCEPT !.val = <<Header(self), NL>> \o b.val]

\* Template.__str__ of a Template whose body is resolved: f"{self.header}\n{self.body}"
TemplateStr(t) == <<Header(t), NL>> \o t.body[1]

\* Template.__eq__
TemplateEq(a, b) == Lower(a.name) = Lower(b.name)

\* Template.__ne__: return self != other, which calls Template.__ne__ again; the
\* interpreter ends the calls with RecursionError.
RECURSIVE TemplateNe(_, _, _)
TemplateNe(a, b, depth) ==
    IF depth >= RecursionLimit
    THEN Raise("RecursionError", "maximum recursion depth exceeded")
    ELSE TemplateNe(a, b, depth + 1)

\* Template.__hash__: hash(self.name), a function of the name.
TemplateHash(t) == Chars(t.name)

\* Template.__lt__, __le__, __gt__, __ge__
TemplateLt(a, b) == CharsLt(Chars(a.name), Chars(b.name))

TemplateLe(a, b) == ~CharsLt(Chars(b.name), Chars(a.name))

TemplateGt(a, b) == CharsLt(Chars(b.name), Chars(a.name))

TemplateGe(a, b) == ~CharsLt(Chars(a.name), Chars(b.name))

(***************************************************************************)
(* TemplateList.                                                           *)
(***************************************************************************)
RECURSIVE TemplateListStrNoSep(_)
\* TemplateList.__str__ that joins the templates with nothing between them.
TemplateListStrNoSep(d) ==
    IF d = <<>> THEN <<>>
    ELSE TemplateStr(Head(d)) \o TemplateListStrNoSep(Tail(d))

\* TemplateList.__str__
TemplateListStr(d) == JoinNL([i \in 1..Len(d) |-> TemplateStr(d[i])])

\* TemplateList.__eq__: list equality of the two data lists, by Template.__eq__.
TemplateListEq(d, e) ==
    /\ Len(d) = Len(e)
    /\ \A i \in 1..Len(d) : TemplateEq(d[i], e[i])

\* The while loop of TemplateList.parse, with a span that does not parse left out.
RECURSIVE ParseSpansSkipping(_, _, _)
ParseSpansSkipping(lines, headers, templates) ==
    IF Len(headers) = 0 THEN Return(templates)
    ELSE LET current == Head(headers)
             rest == Tail(headers)
             content == IF Len(rest) > 0
                        THEN JoinEach(Slice(lines, current, Head(rest)))
                        ELSE JoinEach(SliceFrom(lines, current))
             template == TemplateParse(content)
         IN  IF template.exc # "" THEN ParseSpansSkipping(lines, rest, templates)
             ELSE ParseSpansSkipping(lines, rest, Append(templates, template.val))

\* The while loop of TemplateList.parse: headers holds the header indices left.
RECURSIVE ParseSpans(_, _, _)
ParseSpans(lines, headers, templates) ==
    IF Len(headers) = 0 THEN Return(templates)
    ELSE LET current == Head(headers)
             rest == Tail(headers)
             content == IF Len(rest) > 0
                        THEN JoinEach(Slice(lines, current, Head(rest)))
                        ELSE JoinEach(SliceFrom(lines, current))
             template == TemplateParse(content)
         IN  IF template.exc # "" THEN template
             ELSE ParseSpans(lines, rest, Append(templates, template.val))

\* TemplateList.parse that returns the templates of the spans that parse.
TemplateListParseSkipping(t) ==
    LET lines == SplitLines(Strip(t))
        headers == FindMetadata(lines, TemplateHeaderPattern)
    IN  IF Len(headers) = 0 THEN Raise("ParseError", "Missing template headers")
        ELSE ParseSpansSkipping(lines, headers, <<>>)

\* TemplateList.parse
TemplateListParse(t) ==
    LET lines == SplitLines(Strip(t))
        headers == FindMetadata(lines, TemplateHeaderPattern)
    IN  IF Len(headers) = 0 THEN Raise("ParseError", "Missing template headers")
        ELSE ParseSpans(lines, headers, <<>>)

\* TemplateList.__ne__: return self != other, which calls TemplateList.__ne__ again.
RECURSIVE TemplateListNe(_, _, _)
TemplateListNe(d, e, depth) ==
    IF depth >= RecursionLimit
    THEN Raise("RecursionError", "maximum recursion depth exceeded")
    ELSE TemplateListNe(d, e, depth + 1)

\* The names of the templates of a list, in order.
Names(d) == [i \in 1..Len(d) |-> d[i].name]

\* The positions (from 1) of the templates of a list.
Indices(d) == [i \in 1..Len(d) |-> i]

\* term in template.name.lower(), term lower-cased
NameContains(t, term) == IsInfix(LowerChars(Chars(term)), LowerChars(Chars(t.name)))

\* template.name.lower().startswith(term), term lower-cased
NameStartswith(t, term) == IsPrefix(LowerChars(Chars(term)), LowerChars(Chars(t.name)))

\* term == template.name.lower(), term lower-cased
NameIs(t, term) == LowerChars(Chars(term)) = LowerChars(Chars(t.name))

\* TemplateList.contains with the term taken as it is given.
ContainsPositionsCaseSensitive(d, term) ==
    SelectSeq(Indices(d), LAMBDA i : IsInfix(Chars(term), LowerChars(Chars(d[i].name))))

\* TemplateList.contains: the positions of the templates of the new list
ContainsPositions(d, term) == SelectSeq(Indices(d), LAMBDA i : NameContains(d[i], term))

\* TemplateList.startswith: the positions of the templates of the new list
StartswithPositions(d, term) ==
    SelectSeq(Indices(d), LAMBDA i : NameStartswith(d[i], term))

\* TemplateList.match: the first template of the name as Some, or None
ListMatch(d, term) ==
    LET found == SelectSeq(Indices(d), LAMBDA i : NameIs(d[i], term))
    IN  IF found = <<>> THEN None ELSE Some(d[found[1]])

\* TemplateList.findall with the templates taken in the order of the list.
FindallPositionsSourceOrder(d, terms) ==
    SelectSeq(Indices(d), LAMBDA i : \E k \in 1..Len(terms) : NameIs(d[i], terms[k]))

\* TemplateList.findall: for term in terms, for template in self.data
RECURSIVE FindallPositions(_, _)
FindallPositions(d, terms) ==
    IF terms = <<>> THEN <<>>
    ELSE SelectSeq(Indices(d), LAMBDA i : NameIs(d[i], Head(terms)))
         \o FindallPositions(d, Tail(terms))

\* TemplateList(generator): a new list of the templates at the positions; each
\* entry keeps the position of the template it shares with the source list.
NewList(d, positions) ==
    [k \in 1..Len(positions) |-> [src |-> positions[k], obj |-> d[positions[k]]]]

\* The templates of a list built by NewList.
Objects(r) == [k \in 1..Len(r) |-> r[k].obj]

\* list.index(template): the position (from 1) of the first element equal to it.
FirstEqual(d, template) ==
    CHOOSE i \in 1..Len(d) :
        /\ TemplateEq(d[i], template)
        /\ \A j \in 1..(i - 1) : ~TemplateEq(d[j], template)

\* TemplateList.replace that always appends.
ListReplaceAppends(d, template) == Append(d, template)

\* TemplateList.replace that replaces the last equal element.
ListReplaceLast(d, template) ==
    IF \E i \in 1..Len(d) : TemplateEq(d[i], template)
    THEN LET k == CHOOSE i \in 1..Len(d) :
                      /\ TemplateEq(d[i], template)
                      /\ \A j \in (i + 1)..Len(d) : ~TemplateEq(d[j], template)
         IN  [d EXCEPT ![k] = template]
    ELSE Append(d, template)

\* TemplateList.replace
ListReplace(d, template) ==
    IF \E i \in 1..Len(d) : TemplateEq(d[i], template)
    THEN [d EXCEPT ![FirstEqual(d, template)] = template]
    ELSE Append(d, template)

\* TemplateList.insert (list.insert: the index is cut to the list)
ListInsert(d, index, value) ==
    LET k == SliceIndex(index, Len(d))
    IN  SubSeq(d, 1, k) \o <<value>> \o SubSeq(d, k + 1, Len(d))

\* TemplateList.__delitem__
ListDelete(d, index) == SubSeq(d, 1, index) \o SubSeq(d, index + 2, Len(d))

\* The name a line of the name list gives.
LineStr(line) == IF line = <<>> THEN "" ELSE line[1]

\* The for loop of TemplateList.populate that appends every Template(name).
RECURSIVE PopulateLoopAppends(_, _)
PopulateLoopAppends(d, names) ==
    IF names = <<>> THEN d
    ELSE PopulateLoopAppends(Append(d, Template(LineStr(Head(names)), None)), Tail(names))

\* The for loop of TemplateList.populate that fetches the body of every name.
RECURSIVE PopulateLoopFetches(_, _)
PopulateLoopFetches(d, names) ==
    IF names = <<>> THEN d
    ELSE PopulateLoopFetches(
             ListReplace(d, TemplateBody(Template(LineStr(Head(names)), None), "ok").self),
             Tail(names))

\* The for loop of TemplateList.populate.
RECURSIVE PopulateLoop(_, _)
PopulateLoop(d, names) ==
    IF names = <<>> THEN d
    ELSE PopulateLoop(ListReplace(d, Template(LineStr(Head(names)), None)), Tail(names))

\* What a call on the list gives: the outcome and the list as the call leaves it.
ListOutcome(r, d) == [exc |-> r.exc, msg |-> r.msg, val |-> r.val, data |-> d]

\* TemplateList.populate without the handler for a timeout.
ListPopulateNoTimeout(d, mode, listing) ==
    LET url == BaseUrl \o "/list"
    IN  IF mode = "ConnectionError"
        THEN ListOutcome(Raise("ApiError", "Failed to connect to '" \o url \o "'"), d)
        ELSE IF mode = "Timeout"
        THEN ListOutcome(Raise("Timeout", ""), d)
        ELSE IF mode = "HTTPError"
        THEN ListOutcome(Raise("ApiError", "Failed to fetch '" \o url \o "' because " \o Reason), d)
        ELSE ListOutcome(Return(<<>>), PopulateLoop(d, SplitLines(listing)))

\* TemplateList.populate: listing is response.text of the name list request.
ListPopulate(d, mode, listing) ==
    LET url == BaseUrl \o "/list"
    IN  IF mode = "ConnectionError"
        THEN ListOutcome(Raise("ApiError", "Failed to connect to '" \o url \o "'"), d)
        ELSE IF mode = "Timeout"
        THEN ListOutcome(Raise("ApiError", "Connection to '" \o url \o "' timed out"), d)
        ELSE IF mode = "HTTPError"
        THEN ListOutcome(Raise("ApiError", "Failed to fetch '" \o url \o "' because " \o Reason), d)
        ELSE ListOutcome(Return(<<>>), PopulateLoop(d, SplitLines(listing)))

\* TemplateList.__init__: self.data is the list given (a built-in list or the
\* data of a TemplateList, not a copy of it), else a new list; populate() is
\* called on it when asked.  An exception leaves no object.
TemplateListInit(templates, populate, mode, listing) ==
    IF populate THEN ListPopulate(templates, mode, listing)
    ELSE ListOutcome(Return(<<>>), templates)

(***************************************************************************)
(* Gitignore.                                                              *)
(***************************************************************************)
CreatedLine == "# Created by https://github.com/solbero/ignoro"

BelowLine == "# TEXT BELOW THIS LINE WAS AUTOMATICALLY GENERATED"

AboveLine == "# TEXT ABOVE THIS LINE WAS AUTOMATICALLY GENERATED"

\* Gitignore._header
GitignoreHeader == <<CreatedLine, NL, BelowLine, NL>>

\* Gitignore._footer
GitignoreFooter == <<AboveLine, NL>>

\* Gitignore.__init__
Gitignore(template_list) == [template_list |-> template_list]

\* Gitignore.__str__ and Gitignore.dumps: f"{self._header}\n{self.template_list}\n{self._footer}"
GitignoreStr(g) ==
    GitignoreHeader \o <<NL>> \o TemplateListStr(g.template_list) \o <<NL>> \o GitignoreFooter

\* Gitignore.__eq__
GitignoreEq(g, h) == TemplateListEq(g.template_list, h.template_list)

\* g != h for two Gitignore: the class defines no __ne__, so the result of
\* __eq__ is inverted.
GitignoreNe(g, h) == Return(~GitignoreEq(g, h))

\* pattern_header
BelowPattern == {<<BelowLine>>}

\* pattern_footer
AbovePattern == {<<AboveLine>>}

\* Gitignore._parse without its check for several footers.
GitignoreParseManyFooters(t) ==
    LET lines == SplitLines(Strip(t))
        headers == FindMetadata(SplitLines(t), BelowPattern)
        footers == FindMetadata(SplitLines(t), AbovePattern)
    IN  IF Len(headers) = 0 /\ Len(footers) = 0
        THEN Raise("ParseError", "Missing ignoro header and footer")
        ELSE IF Len(headers) = 0 THEN Raise("ParseError", "Missing ignoro header")
        ELSE IF Len(headers) > 1 THEN Raise("ParseError", "Multiple ignoro headers")
        ELSE IF Len(footers) = 0 THEN Raise("ParseError", "Missing ignoro footer")
        ELSE LET content == JoinEach(Slice(lines, headers[1] + 1, footers[1]))
             IN  IF Strip(content) = <<>>
                 THEN Raise("ParseError", "Missing .gitignore body")
                 ELSE LET template_list == TemplateListParse(content)
                      IN  IF template_list.exc # "" THEN template_list
                          ELSE Return(Gitignore(template_list.val))

\* Gitignore._parse: the markers are looked for in text.splitlines(), the content
\* is cut from text.strip().splitlines().
GitignoreParse(t) ==
    LET lines == SplitLines(Strip(t))
        headers == FindMetadata(SplitLines(t), BelowPattern)
        footers == FindMetadata(SplitLines(t), AbovePattern)
    IN  IF Len(headers) = 0 /\ Len(footers) = 0
        THEN Raise("ParseError", "Missing ignoro header and footer")
        ELSE IF Len(headers) = 0 THEN Raise("ParseError", "Missing ignoro header")
        ELSE IF Len(headers) > 1 THEN Raise("ParseError", "Multiple ignoro headers")
        ELSE IF Len(footers) = 0 THEN Raise("ParseError", "Missing ignoro footer")
        ELSE IF Len(footers) > 1 THEN Raise("ParseError", "Multiple ignoro footers")
        ELSE LET content == JoinEach(Slice(lines, headers[1] + 1, footers[1]))
             IN  IF Strip(content) = <<>>
                 THEN Raise("ParseError", "Missing .gitignore body")
                 ELSE LET template_list == TemplateListParse(content)
                      IN  IF template_list.exc # "" THEN template_list
                          ELSE Return(Gitignore(template_list.val))

\* The content Gitignore._parse cuts from a text with one header marker and one
\* footer marker, and hands to TemplateList.parse.
GitignoreParseContent(t) ==
    LET lines == SplitLines(Strip(t))
        headers == FindMetadata(SplitLines(t), BelowPattern)
        footers == FindMetadata(SplitLines(t), AbovePattern)
    IN  JoinEach(Slice(lines, headers[1] + 1, footers[1]))

\* Gitignore.loads
GitignoreLoads(t) ==
    LET r == GitignoreParse(t)
    IN  IF r.exc = "ParseError"
        THEN Raise("ParseError", "Input is invalid: " \o r.msg)
        ELSE r

(***************************************************************************)
(* The path a document is kept at, and what the file system holds there.   *)
(***************************************************************************)
\* path.absolute()
PathName == "/repo/.gitignore"

\* kind is "absent", "file", "dir" or "noaccess" (a directory above the path
\* cannot be searched); readable and writable are the permissions of the file,
\* or of the directory for a path that is absent; content is the file's text.
PathState(kind, readable, writable, content) ==
    [kind |-> kind, readable |-> readable, writable |-> writable, content |-> content]

NoPath == PathState("absent", TRUE, TRUE, <<>>)

RegularFile(content) == PathState("file", TRUE, TRUE, content)

\* path.is_dir(): False for a path that is absent, PermissionError when the path
\* cannot be reached.
IsDir(p) ==
    IF p.kind = "noaccess" THEN Raise("PermissionError", "")
    ELSE Return(p.kind = "dir")

\* open(path, "r") and file.read()
ReadText(p) ==
    IF p.kind = "absent" THEN Raise("FileNotFoundError", "")
    ELSE IF p.kind = "dir" THEN Raise("IsADirectoryError", "")
    ELSE IF p.kind = "noaccess" \/ ~p.readable THEN Raise("PermissionError", "")
    ELSE Return(p.content)

\* Gitignore.load
GitignoreLoad(p) ==
    LET isdir == IsDir(p)
    IN  IF isdir.exc = "PermissionError"
        THEN Raise("PermissionError", "Permission denied for '" \o PathName \o "'.")
        ELSE IF isdir.val
        THEN Raise("IsADirectoryError", "Path '" \o PathName \o "' is a directory")
        ELSE LET file == ReadText(p)
             IN  IF file.exc = "FileNotFoundError"
                 THEN Raise("FileNotFoundError", "File '" \o PathName \o "' does not exist")
                 ELSE IF file.exc = "PermissionError"
                 THEN Raise("PermissionError", "Permission denied for '" \o PathName \o "'")
                 ELSE LET r == GitignoreParse(file.val)
                      IN  IF r.exc = "ParseError"
                          THEN Raise("ParseError",
                                     "File '" \o PathName \o "' is invalid: " \o r.msg)
                          ELSE r

\* A character the encoding of the file cannot encode (a lone surrogate for
\* UTF-8, any character outside the code page for a narrower encoding).
Surrogate == "\\udc80"

CanEncode(t) == \A i \in 1..Len(t) : t[i] # Surrogate

\* What a call on a path gives: the outcome, the list and the path as it leaves them.
FileOutcome(r, d, p) == [exc |-> r.exc, msg |-> r.msg, val |-> r.val, data |-> d, fs |-> p]

\* path.write_text(data): open(path, "w") creates the file or empties it, then
\* the text is encoded and written.
WriteText(p, t) ==
    IF p.kind = "dir" THEN [r |-> Raise("IsADirectoryError", ""), fs |-> p]
    ELSE IF p.kind = "noaccess" \/ ~p.writable
    THEN [r |-> Raise("PermissionError", ""), fs |-> p]
    ELSE LET opened == IF p.kind = "absent" THEN RegularFile(<<>>)
                       ELSE [p EXCEPT !.content = <<>>]
         IN  IF ~CanEncode(t)
             THEN [r |-> Raise("UnicodeEncodeError", ""), fs |-> opened]
             ELSE [r |-> Return(<<>>), fs |-> [opened EXCEPT !.content = t]]

\* str(template) for the templates of the list in turn, from the i-th: the body of
\* each is read through the property, and the first read that raises ends the
\* loop.  Each str(template) is computed once.
RECURSIVE StrEach(_, _, _, _)
StrEach(d, i, mode, nreq) ==
    IF i > Len(d) THEN [exc |-> "", msg |-> "", val |-> <<>>, nreq |-> nreq, data |-> d]
    ELSE CHOOSE out \in
             { IF o.exc # ""
               THEN [exc |-> o.exc, msg |-> o.msg, val |-> <<>>, nreq |-> nreq + o.nreq,
                     data |-> [d EXCEPT ![i] = o.self]]
               ELSE StrEach([d EXCEPT ![i] = o.self], i + 1, mode, nreq + o.nreq)
               : o \in {TemplateStrLazy(d[i], mode)} } : TRUE

\* str(gitignore) when bodies may have to be fetched: every request of the call
\* ends as mode says.
GitignoreStrLazy(templates, mode) ==
    CHOOSE out \in
        { IF read.exc # "" THEN read
          ELSE [read EXCEPT !.val = GitignoreStr(Gitignore(read.data))]
          : read \in {StrEach(templates, 1, mode, 0)} } : TRUE

\* path.write_text(str(self)) of Gitignore.dump: the text is made first.
DumpText(templates, path, mode) ==
    CHOOSE out \in
        { IF str.exc # "" THEN FileOutcome(str, str.data, path)
          ELSE CHOOSE written \in
                   { IF w.r.exc = "PermissionError"
                     THEN FileOutcome(Raise("PermissionError",
                              "Permission denied for '" \o PathName \o "'."),
                              str.data, w.fs)
                     ELSE FileOutcome(w.r, str.data, w.fs)
                     : w \in {WriteText(path, str.val)} } : TRUE
          : str \in {GitignoreStrLazy(templates, mode)} } : TRUE

\* Gitignore.dump
GitignoreDump(templates, path, mode) ==
    LET isdir == IsDir(path)
    IN  IF isdir.exc = "PermissionError"
        THEN FileOutcome(Raise("PermissionError", "Permission denied for '" \o PathName \o "'"),
                         templates, path)
        ELSE IF isdir.val
        THEN FileOutcome(Raise("IsADirectoryError", "Path '" \o PathName \o "' is a directory"),
                         templates, path)
        ELSE DumpText(templates, path, mode)

(***************************************************************************)
(* The commands (src/ignoro/cli.py).  A command is one run of the program: *)
(* it reads the path, asks the catalog, asks the user, writes the path and *)
(* exits.                                                                  *)
(***************************************************************************)
\* TemplateList.sort(): list.sort() by Template.__lt__, which is stable.
RECURSIVE ListSort(_)
ListSort(d) ==
    IF Len(d) <= 1 THEN d
    ELSE LET sorted == ListSort(SubSeq(d, 1, Len(d) - 1))
             template == d[Len(d)]
             k == Cardinality({i \in 1..Len(sorted) : ~TemplateLt(template, sorted[i])})
         IN  SubSeq(sorted, 1, k) \o <<template>> \o SubSeq(sorted, k + 1, Len(sorted))

\* TemplateList.exactly_matches(names), which the commands call: for each name in
\* the order given, the templates of that name (case ignored).
ExactlyMatches(d, names) ==
    LET positions == FindallPositions(d, names)
    IN  [k \in 1..Len(positions) |-> d[positions[k]]]

\* template in template_list
ListContains(d, template) == \E i \in 1..Len(d) : TemplateEq(d[i], template)

\* template_list.remove(template): del self[self.index(template)]
ListRemove(d, template) ==
    IF ListContains(d, template)
    THEN ListOutcome(Return(<<>>), ListDelete(d, FirstEqual(d, template) - 1))
    ELSE ListOutcome(Raise("ValueError", ""), d)

\* ', '.join(names)
RECURSIVE JoinNames(_)
JoinNames(names) ==
    IF names = <<>> THEN ""
    ELSE IF Len(names) = 1 THEN names[1]
    ELSE names[1] \o ", " \o JoinNames(Tail(names))

\* What a run of a command leaves: the exit code, the exception that ended it
\* (if one did), the lines printed to stderr, the text printed to stdout, the
\* names the user was asked about, the template list the command held at its
\* end, and the path.
CliOutcome(exit, exc, err, out, asked, d, p) ==
    [exit |-> exit, exc |-> exc, err |-> err, out |-> out, asked |-> asked, data |-> d, fs |-> p]

\* The except clauses after Gitignore.load in add and remove.
ReadError(exc) ==
    CASE exc = "FileNotFoundError" ->
             "Could not read gitignore file: File '" \o PathName \o "' does not exist."
      [] exc = "PermissionError" ->
             "Could not read gitignore file: Permission denied for '" \o PathName \o "'."
      [] exc = "IsADirectoryError" ->
             "Could not read gitignore file: Path '" \o PathName \o "' is a directory."
      [] OTHER ->
             "Could not read gitignore file: File '" \o PathName \o "' is not valid."

\* The end of create, add and remove: path.is_dir(), then gitignore.dump(path).
\* what is the command's wording ("create gitignore file", "add to gitignore file",
\* "remove from gitignore file").  An exception that is not PermissionError
\* leaves the program with exit code 1.
CliWrite(what, d, p, mode, err, asked) ==
    CHOOSE out \in
        { IF isdir.exc = "PermissionError"
          THEN CliOutcome(1, "", Append(err, "Could not " \o what \o ": Permission denied for '"
                                              \o PathName \o "'."), <<>>, asked, d, p)
          ELSE IF isdir.val
          THEN CliOutcome(1, "", Append(err, "Could not " \o what \o ": Path '" \o PathName
                                              \o "' is a directory."), <<>>, asked, d, p)
          ELSE CHOOSE written \in
                   { IF o.exc = "PermissionError"
                     THEN CliOutcome(1, "", Append(err, "Could not " \o what
                                         \o ": Permission denied for '" \o PathName \o "'."),
                                     <<>>, asked, o.data, o.fs)
                     ELSE IF o.exc # ""
                     THEN CliOutcome(1, o.exc, err, <<>>, asked, o.data, o.fs)
                     ELSE CliOutcome(0, "", err, <<>>, asked, o.data, o.fs)
                     : o \in {GitignoreDump(d, p, mode)} } : TRUE
          : isdir \in {IsDir(p)} } : TRUE

\* stdout.print(gitignore.dumps()); raise typer.Exit(0)
CliEcho(d, p, mode, err, asked) ==
    CHOOSE out \in
        { IF str.exc # "" THEN CliOutcome(1, str.exc, err, <<>>, asked, str.data, p)
          ELSE CliOutcome(0, "", err, str.val, asked, str.data, p)
          : str \in {GitignoreStrLazy(d, mode)} } : TRUE

\* The for loop of add without the question: every match is put into the list.
RECURSIVE AddLoopNoQuestion(_, _, _, _)
AddLoopNoQuestion(d, matches, yes, asked) ==
    IF matches = <<>> THEN [data |-> d, asked |-> asked]
    ELSE AddLoopNoQuestion(ListReplace(d, Head(matches)), Tail(matches), yes,
                           IF ListContains(d, Head(matches))
                           THEN Append(asked, Head(matches).name) ELSE asked)

\* The for loop of add: a template the document holds is replaced when the user
\* says yes, a template it does not hold is added.  yes is the set of names the
\* user says yes to.
RECURSIVE AddLoop(_, _, _, _)
AddLoop(d, matches, yes, asked) ==
    IF matches = <<>> THEN [data |-> d, asked |-> asked]
    ELSE IF ListContains(d, Head(matches))
    THEN IF Head(matches).name \in yes
         THEN AddLoop(ListReplace(d, Head(matches)), Tail(matches), yes,
                      Append(asked, Head(matches).name))
         ELSE AddLoop(d, Tail(matches), yes, Append(asked, Head(matches).name))
    ELSE AddLoop(ListReplace(d, Head(matches)), Tail(matches), yes, asked)

\* The for loop of remove over template_matches: the first remove that raises
\* ends it.
RECURSIVE RemoveLoop(_, _)
RemoveLoop(d, matches) ==
    IF matches = <<>> THEN ListOutcome(Return(<<>>), d)
    ELSE IF ListRemove(d, Head(matches)).exc # "" THEN ListRemove(d, Head(matches))
    ELSE RemoveLoop(ListRemove(d, Head(matches)).data, Tail(matches))

\* The for loop of remove over names: a line on stderr for each name that is
\* not the name of a template of the document.
RECURSIVE NotFoundLines(_, _)
NotFoundLines(d, names) ==
    IF names = <<>> THEN <<>>
    ELSE (IF \E i \in 1..Len(d) : d[i].name = Head(names) THEN <<>>
          ELSE <<"Could not remove from gitignore file: Template '" \o Head(names)
                 \o "' does not exist in gitignore file.">>)
         \o NotFoundLines(d, Tail(names))

\* The create command.  overwrite is the user's answer when the file exists;
\* lmode and listing are how the request for the name list ends, mode how the
\* requests for bodies end.
CliCreate(names, echo, overwrite, lmode, listing, mode, p) ==
    CHOOSE out \in
        { IF catalog.exc # "" THEN CliOutcome(1, catalog.exc, <<>>, <<>>, <<>>, <<>>, p)
          ELSE IF ExactlyMatches(catalog.data, names) = <<>>
          THEN CliOutcome(1, "",
                   <<"Could not create gitignore file: Found no matching template names for terms '"
                     \o JoinNames(names) \o "'.">>, <<>>, <<>>, <<>>, p)
          ELSE IF echo
          THEN CliEcho(ListSort(ExactlyMatches(catalog.data, names)), p, mode, <<>>, <<>>)
          ELSE IF IsDir(p).exc = "" /\ ~IsDir(p).val /\ p.kind # "absent" /\ ~overwrite
          THEN CliOutcome(1, "Abort", <<>>, <<>>, <<PathName>>,
                          ListSort(ExactlyMatches(catalog.data, names)), p)
          ELSE CliWrite("create gitignore file", ListSort(ExactlyMatches(catalog.data, names)),
                        p, mode, <<>>,
                        IF IsDir(p).exc = "" /\ ~IsDir(p).val /\ p.kind # "absent"
                        THEN <<PathName>> ELSE <<>>)
          : catalog \in {TemplateListInit(<<>>, TRUE, lmode, listing)} } : TRUE

\* The add command.  yes is the set of names the user agrees to replace.
CliAdd(names, echo, yes, lmode, listing, mode, p) ==
    CHOOSE out \in
        { IF loaded.exc # ""
          THEN CliOutcome(1, "", <<ReadError(loaded.exc)>>, <<>>, <<>>, <<>>, p)
          ELSE CHOOSE after \in
              { IF catalog.exc # ""
                THEN CliOutcome(1, catalog.exc, <<>>, <<>>, <<>>, loaded.val.template_list, p)
                ELSE IF ExactlyMatches(catalog.data, names) = <<>>
                THEN CliOutcome(1, "",
                         <<"Could not add to gitignore file: Found no matching template names for terms '"
                           \o JoinNames(names) \o "'.">>, <<>>, <<>>, loaded.val.template_list, p)
                ELSE CHOOSE done \in
                    { IF echo THEN CliEcho(merged.data, p, mode, <<>>, merged.asked)
                      ELSE CliWrite("add to gitignore file", merged.data, p, mode, <<>>,
                                    merged.asked)
                      : merged \in {AddLoop(loaded.val.template_list,
                                            ExactlyMatches(catalog.data, names), yes, <<>>)} }
                    : TRUE
                : catalog \in {TemplateListInit(<<>>, TRUE, lmode, listing)} } : TRUE
          : loaded \in {GitignoreLoad(p)} } : TRUE

\* The remove command.
CliRemove(names, echo, p) ==
    CHOOSE out \in
        { IF loaded.exc # ""
          THEN CliOutcome(1, "", <<ReadError(loaded.exc)>>, <<>>, <<>>, <<>>, p)
          ELSE CHOOSE done \in
              { IF removed.exc # ""
                THEN CliOutcome(1, removed.exc, NotFoundLines(loaded.val.template_list, names),
                                <<>>, <<>>, removed.data, p)
                ELSE IF echo
                THEN CliEcho(removed.data, p, "ok",
                             NotFoundLines(loaded.val.template_list, names), <<>>)
                ELSE CliWrite("remove from gitignore file", removed.data, p, "ok",
                              NotFoundLines(loaded.val.template_list, names), <<>>)
                : removed \in {RemoveLoop(loaded.val.template_list,
                                          ExactlyMatches(loaded.val.template_list, names))} }
              : TRUE
          : loaded \in {GitignoreLoad(p)} } : TRUE

\* The list command: the names printed are those of the templates contains(term)
\* returns (the underline markup around the term is left out).
CliList(term, lmode, listing, p) ==
    CHOOSE out \in
        { IF catalog.exc # "" THEN CliOutcome(1, catalog.exc, <<>>, <<>>, <<>>, <<>>, p)
          ELSE IF ContainsPositions(catalog.data, term) = <<>>
          THEN CliOutcome(1, "",
                   <<"Could not list template names: Found no matching names for search term '"
                     \o term \o "'.">>, <<>>, <<>>, catalog.data, p)
          ELSE CliOutcome(0, "", <<>>,
                   Names(Objects(NewList(catalog.data, ContainsPositions(catalog.data, term)))),
                   <<>>, ListSort(catalog.data), p)
          : catalog \in {TemplateListInit(<<>>, TRUE, lmode, listing)} } : TRUE

(***************************************************************************)
(* Parsing as a state machine: an input text is chosen, then one parser    *)
(* is applied to it.                                                       *)
(***************************************************************************)
NoCall == [op |-> "", exc |-> "", msg |-> "", val |-> <<>>]

Call(op, r) == [op |-> op, exc |-> r.exc, msg |-> r.msg, val |-> r.val]

ParseChunks == {NL, SP, "x", Banner("Foo"), Banner("bar")}

RECURSIVE SeqsUpTo(_, _)
SeqsUpTo(S, n) ==
    IF n = 0 THEN {<<>>}
    ELSE LET shorter == SeqsUpTo(S, n - 1)
         IN  shorter \cup {Append(s, c) : s \in {q \in shorter : Len(q) = n - 1}, c \in S}

\* The lines of the texts built line by line: an empty line, a body line, two
\* banners, a banner followed by a space, and the two marker lines of a document.
ParseLines ==
    { <<>>, <<"x">>, <<Banner("Foo")>>, <<Banner("bar")>>, <<Banner("bar"), SP>>,
      <<BelowLine>>, <<AboveLine>> }

\* The input texts: every text of up to MaxText chunks, and every text of up to
\* MaxText lines joined by newlines.
ParseTexts ==
    SeqsUpTo(ParseChunks, MaxText)
    \cup {JoinNL(ls) : ls \in SeqsUpTo(ParseLines, MaxText)}

InitParse ==
    /\ data = <<>>
    /\ text \in ParseTexts
    /\ last = NoCall
    /\ result = <<>>
    /\ fs = RegularFile(text)

DoTemplateParse ==
    /\ last.op = ""
    /\ last' = Call("Template.parse", TemplateParse(text))
    /\ UNCHANGED <<data, text, result, fs>>

DoTemplateListParse ==
    /\ last.op = ""
    /\ last' = Call("TemplateList.parse", TemplateListParse(text))
    /\ UNCHANGED <<data, text, result, fs>>

\* Gitignore.loads(text)
DoGitignoreLoads ==
    /\ last.op = ""
    /\ last' = Call("Gitignore.loads", GitignoreLoads(text))
    /\ UNCHANGED <<data, text, result, fs>>

\* Gitignore.load(path) for a file that holds the text
DoGitignoreLoad ==
    /\ last.op = ""
    /\ last' = Call("Gitignore.load", GitignoreLoad(fs))
    /\ UNCHANGED <<data, text, result, fs>>

NextParse ==
    \/ DoTemplateParse
    \/ DoTemplateListParse
    \/ DoGitignoreLoads
    \/ DoGitignoreLoad

SpecParse == InitParse /\ [][NextParse]_vars

(***************************************************************************)
(* Round trips: a TemplateList of Templates with bodies is rendered, and   *)
(* the text is parsed back.                                                *)
(***************************************************************************)
\* The bodies given to Template(name, body): the empty str, one line with and
\* without its newline, a blank line first, and two that hold a banner line.
RoundBodies ==
    { <<>>,
      <<"x">>,
      <<"x", NL>>,
      <<NL, "x", NL>>,
      <<"x", NL, Banner("Bar"), NL, "y", NL>>,
      <<"x", NL, Banner("Bar"), SP>> }

RoundTemplates == {Template(n, Some(b)) : n \in RawNames, b \in RoundBodies}

InitRound ==
    /\ data \in SeqsUpTo(RoundTemplates, MaxLen)
    /\ text = <<>>
    /\ last = NoCall
    /\ result = <<>>
    /\ fs = NoPath

\* str(template_list)
DoStr ==
    /\ last.op = ""
    /\ text' = TemplateListStr(data)
    /\ last' = Call("TemplateList.__str__", Return(<<>>))
    /\ UNCHANGED <<data, result, fs>>

\* TemplateList.parse(str(template_list))
DoListParse ==
    /\ last.op = "TemplateList.__str__"
    /\ last' = Call("TemplateList.parse", TemplateListParse(text))
    /\ UNCHANGED <<data, text, result, fs>>

\* Gitignore(template_list).dumps()
DoDumps ==
    /\ last.op = ""
    /\ text' = GitignoreStr(Gitignore(data))
    /\ last' = Call("Gitignore.dumps", Return(<<>>))
    /\ UNCHANGED <<data, result, fs>>

\* Gitignore.loads(Gitignore(template_list).dumps())
DoLoads ==
    /\ last.op = "Gitignore.dumps"
    /\ last' = Call("Gitignore.loads", GitignoreLoads(text))
    /\ UNCHANGED <<data, text, result, fs>>

\* Template.parse(str(template)) for a list of one template
DoParseOne ==
    /\ last.op = "TemplateList.__str__"
    /\ Len(data) = 1
    /\ last' = Call("Template.parse", TemplateParse(text))
    /\ UNCHANGED <<data, text, result, fs>>

\* The numbers of blank lines put before a dump.
LeadingBlankLines == {1, 2}

RECURSIVE BlankLines(_)
BlankLines(k) == IF k = 0 THEN <<>> ELSE <<NL>> \o BlankLines(k - 1)

\* Gitignore.loads(k blank lines + Gitignore(template_list).dumps())
DoLoadsAfterBlank(k) ==
    /\ last.op = "Gitignore.dumps"
    /\ text' = BlankLines(k) \o text
    /\ last' = Call("Gitignore.loads after blank lines", GitignoreLoads(text'))
    /\ UNCHANGED <<data, result, fs>>

NextRound ==
    \/ DoStr
    \/ DoListParse
    \/ DoParseOne
    \/ DoDumps
    \/ DoLoads
    \/ \E k \in LeadingBlankLines : DoLoadsAfterBlank(k)

SpecRound == InitRound /\ [][NextRound]_vars

(***************************************************************************)
(* A TemplateList in use: templates are built and put into the list, the   *)
(* list is populated from the catalog, and the bodies of its elements are  *)
(* read and assigned.  Every Template put into the list is a new object.   *)
(***************************************************************************)
ArgNames == {"foo", "Foo", "bar"}

\* Template(name) and Template(name, body), the body a line or the empty str
ArgTemplates == {Template(n, b) : n \in ArgNames, b \in {None, Some(<<"x", NL>>), Some(<<>>)}}

\* The values assigned to template.body.
SetBodies == {<<"x", NL>>}

\* response.text of the name list request: names joined by newlines.
Listings == {<<>>, <<"foo">>, <<"bar", NL, "foo">>, <<"Foo", NL, "foo">>}

\* The record of a call: its arguments, how the request it made (if any) ended,
\* its outcome, the number of requests made and the list before the call.
ListCall(op, arg, mode, r, nreq, before) ==
    [op |-> op, arg |-> arg, mode |-> mode, exc |-> r.exc, msg |-> r.msg,
     val |-> r.val, nreq |-> nreq, before |-> before]

Init ==
    /\ data = <<>>
    /\ text = <<>>
    /\ last = NoCall
    /\ result = <<>>
    /\ fs = NoPath

\* template_list.append(template)
AppendTemplate(template) ==
    /\ Len(data) < MaxLen
    /\ data' = Append(data, template)
    /\ last' = ListCall("append", template, "", Return(<<>>), 0, data)
    /\ UNCHANGED <<text, result, fs>>

\* template_list.extend(templates)
ExtendTemplates(templates) ==
    /\ Len(data) + Len(templates) <= MaxLen
    /\ data' = data \o templates
    /\ last' = ListCall("extend", templates, "", Return(<<>>), 0, data)
    /\ UNCHANGED <<text, result, fs>>

\* template_list.insert(index, template)
InsertTemplate(index, template) ==
    /\ Len(data) < MaxLen
    /\ data' = ListInsert(data, index, template)
    /\ last' = ListCall("insert", <<index, template>>, "", Return(<<>>), 0, data)
    /\ UNCHANGED <<text, result, fs>>

\* template_list[index] = template
SetItem(index, template) ==
    /\ index < Len(data)
    /\ data' = [data EXCEPT ![index + 1] = template]
    /\ last' = ListCall("__setitem__", <<index, template>>, "", Return(<<>>), 0, data)
    /\ UNCHANGED <<text, result, fs>>

\* del template_list[index]
DelItem(index) ==
    /\ index < Len(data)
    /\ data' = ListDelete(data, index)
    /\ last' = ListCall("__delitem__", index, "", Return(<<>>), 0, data)
    /\ UNCHANGED <<text, result, fs>>

\* template_list.replace(template)
ReplaceTemplate(template) ==
    /\ Len(ListReplace(data, template)) <= MaxLen
    /\ data' = ListReplace(data, template)
    /\ last' = ListCall("replace", template, "", Return(<<>>), 0, data)
    /\ UNCHANGED <<text, result, fs>>

\* template_list.populate()
Populate(mode, listing) ==
    LET o == ListPopulate(data, mode, listing)
    IN  /\ Len(o.data) <= MaxLen
        /\ data' = o.data
        /\ last' = ListCall("populate", listing, mode, o, 1, data)
        /\ UNCHANGED <<text, result, fs>>

\* template_list[index].body
ReadBody(index, mode) ==
    /\ index < Len(data)
    /\ LET o == TemplateBody(data[index + 1], mode)
       IN  /\ data' = [data EXCEPT ![index + 1] = o.self]
           /\ last' = ListCall("body", index, mode, o, o.nreq, data)
    /\ UNCHANGED <<text, result, fs>>

\* template_list[index].body = value
SetBody(index, value) ==
    /\ index < Len(data)
    /\ data' = [data EXCEPT ![index + 1] = TemplateSetBody(data[index + 1], value)]
    /\ last' = ListCall("body.setter", <<index, value>>, "", Return(<<>>), 0, data)
    /\ UNCHANGED <<text, result, fs>>

\* str(template_list[index])
StrTemplate(index, mode) ==
    /\ index < Len(data)
    /\ LET o == TemplateStrLazy(data[index + 1], mode)
       IN  /\ data' = [data EXCEPT ![index + 1] = o.self]
           /\ last' = ListCall("__str__", index, mode, o, o.nreq, data)
    /\ UNCHANGED <<text, result, fs>>

\* template_list = TemplateList(populate=True), in place of TemplateList()
ConstructPopulated(mode, listing) ==
    LET o == TemplateListInit(<<>>, TRUE, mode, listing)
    IN  /\ last.op = ""
        /\ Len(o.data) <= MaxLen
        /\ data' = IF o.exc = "" THEN o.data ELSE data
        /\ last' = ListCall("__init__", listing, mode, o, 1, data)
        /\ UNCHANGED <<text, result, fs>>

Next ==
    \/ \E mode \in Modes, listing \in Listings : ConstructPopulated(mode, listing)
    \/ \E template \in ArgTemplates : AppendTemplate(template)
    \/ \E templates \in SeqsUpTo(ArgTemplates, 2) : ExtendTemplates(templates)
    \/ \E index \in 0..MaxLen, template \in ArgTemplates : InsertTemplate(index, template)
    \/ \E index \in 0..MaxLen, template \in ArgTemplates : SetItem(index, template)
    \/ \E index \in 0..MaxLen : DelItem(index)
    \/ \E template \in ArgTemplates : ReplaceTemplate(template)
    \/ \E mode \in Modes, listing \in Listings : Populate(mode, listing)
    \/ \E index \in 0..MaxLen, mode \in Modes : ReadBody(index, mode)
    \/ \E index \in 0..MaxLen, value \in SetBodies : SetBody(index, value)
    \/ \E index \in 0..MaxLen, mode \in Modes : StrTemplate(index, mode)

Spec == Init /\ [][Next]_vars

(***************************************************************************)
(* A document and its file: the document is dumped to the path and loaded  *)
(* from it.                                                                *)
(***************************************************************************)
\* The templates of the documents: one without a body, one with a body, and one
\* whose body holds a character the file cannot encode.
FileTemplates ==
    { Template("foo", None),
      Template("bar", Some(<<"x", NL>>)),
      Template("bar", Some(<<Surrogate, NL>>)) }

\* The text of the file before the first call.
OldText == GitignoreStr(Gitignore(<<Template("bar", Some(<<"y", NL>>))>>))

\* What the path can be: absent in a directory that can or cannot be written, a
\* directory, out of reach, or a file with its permissions.
FilePaths ==
    { PathState("absent", TRUE, w, <<>>) : w \in BOOLEAN }
    \cup { PathState("dir", TRUE, TRUE, <<>>), PathState("noaccess", FALSE, FALSE, <<>>) }
    \cup { PathState("file", r, w, OldText) : r, w \in BOOLEAN }

\* The record of a call on the path: the list and the path before the call.
FileCall(op, mode, o, d, p) ==
    [op |-> op, arg |-> <<>>, mode |-> mode, exc |-> o.exc, msg |-> o.msg, val |-> o.val,
     nreq |-> 0, before |-> [data |-> d, fs |-> p]]

InitFile ==
    /\ data \in SeqsUpTo(FileTemplates, MaxLen)
    /\ text = <<>>
    /\ last = NoCall
    /\ result = <<>>
    /\ fs \in FilePaths

\* Gitignore(template_list).dump(path)
DoDump(mode) ==
    \E o \in {GitignoreDump(data, fs, mode)} :
        /\ data' = o.data
        /\ fs' = o.fs
        /\ last' = FileCall("Gitignore.dump", mode, o, data, fs)
        /\ UNCHANGED <<text, result>>

\* template_list = Gitignore.load(path).template_list
DoLoad ==
    LET o == GitignoreLoad(fs)
    IN  /\ data' = IF o.exc = "" THEN o.val.template_list ELSE data
        /\ last' = FileCall("Gitignore.load", "", o, data, fs)
        /\ UNCHANGED <<text, result, fs>>

NextFile ==
    \/ \E mode \in Modes : DoDump(mode)
    \/ DoLoad

SpecFile == InitFile /\ [][NextFile]_vars

(***************************************************************************)
(* Queries on a TemplateList: templates are compared, the list is          *)
(* searched, and the list a search returned is changed.                    *)
(***************************************************************************)
\* The templates of the list that is searched.
QueryTemplates ==
    { Template("foo", None), Template("Foo", Some(<<"x", NL>>)), Template("bar", None) }

\* The names given to the Template a template of the list is compared with.
QueryNames == {"foo", "Foo", "FOO", "bar", "a b"}

\* The search terms of contains, startswith and match.
Terms == {"", "o", "FO", "ar", "foo", "FOO", "x"}

\* The search terms of findall.
FindTerms == {"foo", "FOO", "bar", "x"}

InitQuery ==
    /\ data \in SeqsUpTo(QueryTemplates, MaxLen)
    /\ text = <<>>
    /\ last = NoCall
    /\ result = <<>>
    /\ fs = NoPath

\* a == b, hash(a), hash(b), a < b, a <= b, a > b, a >= b for a = template_list[index]
\* and b = Template(name, body)
CompareTemplates(index, name, body) ==
    /\ result = <<>>
    /\ index < Len(data)
    /\ LET a == data[index + 1]
           b == Template(name, body)
       IN  last' = ListCall("compare", <<index, name>>, "",
                            Return([eq |-> TemplateEq(a, b),
                                    hash |-> <<TemplateHash(a), TemplateHash(b)>>,
                                    lt |-> TemplateLt(a, b), le |-> TemplateLe(a, b),
                                    gt |-> TemplateGt(a, b), ge |-> TemplateGe(a, b)]),
                            0, data)
    /\ UNCHANGED <<data, text, result, fs>>

\* template_list[index] != Template(name)
TemplateNotEqual(index, name) ==
    /\ result = <<>>
    /\ index < Len(data)
    /\ last' = ListCall("Template.__ne__", <<index, name>>, "",
                        TemplateNe(data[index + 1], Template(name, None), 0), 0, data)
    /\ UNCHANGED <<data, text, result, fs>>

\* template_list != result, for the list a search has just returned
ListNotEqual ==
    /\ last.op \in {"contains", "startswith", "findall"}
    /\ last' = ListCall("TemplateList.__ne__", <<>>, "",
                        TemplateListNe(data, Objects(result), 0), 0, data)
    /\ UNCHANGED <<data, text, result, fs>>

\* Gitignore(template_list) != Gitignore(result)
GitignoreNotEqual ==
    /\ last.op \in {"contains", "startswith", "findall"}
    /\ last' = ListCall("Gitignore.__ne__", <<>>, "",
                        GitignoreNe(Gitignore(data), Gitignore(Objects(result))), 0, data)
    /\ UNCHANGED <<data, text, result, fs>>

\* result = template_list.contains(term)
Contains(term) ==
    /\ result' = NewList(data, ContainsPositions(data, term))
    /\ last' = ListCall("contains", term, "", Return(Objects(result')), 0, data)
    /\ UNCHANGED <<data, text, fs>>

\* result = template_list.startswith(term)
Startswith(term) ==
    /\ result' = NewList(data, StartswithPositions(data, term))
    /\ last' = ListCall("startswith", term, "", Return(Objects(result')), 0, data)
    /\ UNCHANGED <<data, text, fs>>

\* template_list.match(term)
Match(term) ==
    /\ result = <<>>
    /\ last' = ListCall("match", term, "", Return(ListMatch(data, term)), 0, data)
    /\ UNCHANGED <<data, text, result, fs>>

\* result = template_list.findall(terms)
Findall(terms) ==
    /\ result' = NewList(data, FindallPositions(data, terms))
    /\ last' = ListCall("findall", terms, "", Return(Objects(result')), 0, data)
    /\ UNCHANGED <<data, text, fs>>

\* The calls that return a new list.
Searches == {"contains", "startswith", "findall"}

\* The later changes to a list a search returned.
ResultChanges == {"result.append", "result.__delitem__", "result.body.setter"}

\* result.append(template), right after the search
ResultAppend(template) ==
    /\ last.op \in Searches
    /\ Len(result) < MaxLen
    /\ result' = Append(result, [src |-> 0, obj |-> template])
    /\ last' = ListCall("result.append", template, "", Return(<<>>), 0, data)
    /\ UNCHANGED <<data, text, fs>>

\* del result[index]
ResultDelete(index) ==
    /\ last.op \in Searches
    /\ index < Len(result)
    /\ result' = ListDelete(result, index)
    /\ last' = ListCall("result.__delitem__", index, "", Return(<<>>), 0, data)
    /\ UNCHANGED <<data, text, fs>>

\* result[index].body = value: the Template is the one the source list holds.
ResultSetBody(index, value) ==
    /\ last.op \in Searches
    /\ index < Len(result)
    /\ LET entry == result[index + 1]
           set == TemplateSetBody(entry.obj, value)
       IN  /\ result' = [k \in 1..Len(result) |->
                            IF k = index + 1 \/ (entry.src # 0 /\ result[k].src = entry.src)
                            THEN [result[k] EXCEPT !.obj = set]
                            ELSE result[k]]
           /\ data' = IF entry.src = 0 THEN data ELSE [data EXCEPT ![entry.src] = set]
    /\ last' = ListCall("result.body.setter", <<index, value>>, "", Return(<<>>), 0, data)
    /\ UNCHANGED <<text, fs>>

NextQuery ==
    \/ \E index \in 0..MaxLen, name \in QueryNames, body \in {None, Some(<<"x", NL>>)} :
           CompareTemplates(index, name, body)
    \/ \E index \in 0..MaxLen, name \in QueryNames : TemplateNotEqual(index, name)
    \/ ListNotEqual
    \/ GitignoreNotEqual
    \/ \E term \in Terms : Contains(term)
    \/ \E term \in Terms : Startswith(term)
    \/ \E term \in Terms : Match(term)
    \/ \E terms \in SeqsUpTo(FindTerms, 2) : Findall(terms)
    \/ \E template \in QueryTemplates : ResultAppend(template)
    \/ \E index \in 0..MaxLen : ResultDelete(index)
    \/ \E index \in 0..MaxLen, value \in SetBodies : ResultSetBody(index, value)

SpecQuery == InitQuery /\ [][NextQuery]_vars

(***************************************************************************)
(* The commands in use: create, add, remove and list are run one after     *)
(* the other on one path.                                                  *)
(***************************************************************************)
\* The names given to a command: two that the catalog holds and one it does not.
CliNames == {"foo", "bar", "x"}

\* response.text of the name list request.
CliListing == <<"bar", NL, "foo">>

\* The documents a file holds before the first command: bodies that end in a
\* newline and one that does not, and a document that holds a name twice.
CliDocuments ==
    { <<Template("foo", Some(<<"x", NL>>))>>,
      <<Template("foo", Some(<<"x", NL>>)), Template("bar", Some(<<"y", NL>>))>>,
      <<Template("foo", Some(<<"x", NL>>)), Template("bar", Some(<<"y">>))>>,
      <<Template("foo", Some(<<"x", NL>>)), Template("foo", Some(<<"z", NL>>))>> }

\* The path before the first command: absent, a directory, a file that is not a
\* document, the dump of a document (one that cannot be written), and the dump
\* of a document with the user's own lines before and after it.
CliPaths ==
    { NoPath, PathState("dir", TRUE, TRUE, <<>>), RegularFile(<<"x", NL>>) }
    \cup { RegularFile(GitignoreStr(Gitignore(d))) : d \in CliDocuments }
    \cup { PathState("file", TRUE, FALSE, GitignoreStr(Gitignore(d))) : d \in CliDocuments }
    \cup { RegularFile(<<"mine", NL>> \o GitignoreStr(Gitignore(d)) \o <<"yours", NL>>)
           : d \in CliDocuments }

\* The record of a run: the command and its arguments, how the requests ended,
\* what the run left, and the path before it.
CliCall(op, names, echo, yes, lmode, mode, o, p) ==
    [op |-> op, n |-> IF last.op = "" THEN 1 ELSE last.n + 1,
     arg |-> names, echo |-> echo, yes |-> yes, lmode |-> lmode, mode |-> mode,
     exit |-> o.exit, exc |-> o.exc, err |-> o.err, val |-> o.out, asked |-> o.asked,
     msg |-> "", before |-> [fs |-> p]]

InitCli ==
    /\ data = <<>>
    /\ text = <<>>
    /\ last = NoCall
    /\ result = <<>>
    /\ fs \in CliPaths

\* A run follows a run that wrote the path and exited with code 0 (or is the first).
CanRun ==
    IF last.op = "" THEN TRUE
    ELSE last.n < MaxRuns /\ last.exit = 0 /\ ~last.echo /\ last.op # "list"

\* ignoro create NAMES [--show-gitignore]
Create(names, echo, overwrite, lmode, mode) ==
    /\ CanRun
    /\ \E o \in {CliCreate(names, echo, overwrite, lmode, CliListing, mode, fs)} :
        /\ data' = o.data
        /\ fs' = o.fs
        /\ last' = CliCall("create", names, echo, IF overwrite THEN {PathName} ELSE {},
                           lmode, mode, o, fs)
        /\ UNCHANGED <<text, result>>

\* ignoro add NAMES [--show-gitignore]
Add(names, echo, yes, lmode, mode) ==
    /\ CanRun
    /\ \E o \in {CliAdd(names, echo, yes, lmode, CliListing, mode, fs)} :
        /\ data' = o.data
        /\ fs' = o.fs
        /\ last' = CliCall("add", names, echo, yes, lmode, mode, o, fs)
        /\ UNCHANGED <<text, result>>

\* ignoro remove NAMES [--show-gitignore]
Remove(names, echo) ==
    /\ CanRun
    /\ \E o \in {CliRemove(names, echo, fs)} :
        /\ data' = o.data
        /\ fs' = o.fs
        /\ last' = CliCall("remove", names, echo, {}, "", "", o, fs)
        /\ UNCHANGED <<text, result>>

\* ignoro list [TERM]
List(term, lmode) ==
    /\ CanRun
    /\ \E o \in {CliList(term, lmode, CliListing, fs)} :
        /\ data' = o.data
        /\ fs' = o.fs
        /\ last' = CliCall("list", <<term>>, FALSE, {}, lmode, "", o, fs)
        /\ UNCHANGED <<text, result>>

\* How the requests of a run end: all succeed, the request for a body fails, or
\* the request for the name list fails (and no body is asked for).
CliModes == {<<"ok", "ok">>, <<"ok", "HTTPError">>, <<"ConnectionError", "">>}

\* The names given to a run: one name, two names, a name twice.
CliArgs ==
    { <<"foo">>, <<"bar">>, <<"x">>, <<"foo", "bar">>, <<"bar", "foo">>, <<"foo", "x">>,
      <<"foo", "foo">> }

NextCli ==
    \/ \E names \in CliArgs, echo, overwrite \in BOOLEAN, m \in CliModes :
           Create(names, echo, overwrite, m[1], m[2])
    \/ \E names \in CliArgs, echo \in BOOLEAN, yes \in {{}, {"foo"}, {"foo", "bar"}}, m \in CliModes :
           Add(names, echo, yes, m[1], m[2])
    \/ \E names \in CliArgs, echo \in BOOLEAN : Remove(names, echo)
    \/ \E term \in {"", "o", "x"}, lmode \in Modes : List(term, lmode)

SpecCli == InitCli /\ [][NextCli]_vars

(***************************************************************************)
(* A TemplateList built from another object: source is a built-in list, a  *)
(* TemplateList or a tuple of templates, template_list is                  *)
(* TemplateList(source).  data is the content of template_list.data;       *)
(* result holds the source: its kind, its content, and whether             *)
(* template_list.data is the very list object the source keeps.  After the *)
(* construction one operation is made on either of them.                   *)
(***************************************************************************)
SourceKinds == {"list", "TemplateList", "tuple"}

StoredTemplates ==
    { Template("foo", None), Template("bar", None), Template("foo", Some(<<"x", NL>>)) }

\* TemplateList.__init__: self.data = templates for a list, templates.data for a
\* TemplateList, list(templates) for another iterable.
SharesStorage(kind) == kind \in {"list", "TemplateList"}

\* The record of a call on template_list ("new") or on the source ("source"),
\* with the content of both before it.
StorageCall(op, on, arg) ==
    [op |-> op, on |-> on, arg |-> arg, exc |-> "", msg |-> "", val |-> <<>>,
     before |-> [data |-> data, source |-> result.data],
     same |-> FALSE, items |-> <<>>, pos |-> 0, done |-> TRUE]

InitStorage ==
    /\ data = <<>>
    /\ text = <<>>
    /\ last = NoCall
    /\ result \in [kind : SourceKinds, data : SeqsUpTo(StoredTemplates, MaxLen), same : {FALSE}]
    /\ fs = NoPath

\* template_list = TemplateList(source)
Construct ==
    /\ last.op = ""
    /\ \E o \in {TemplateListInit(result.data, FALSE, "ok", <<>>)} :
           /\ data' = o.data
           /\ result' = [result EXCEPT !.same = SharesStorage(result.kind)]
           /\ last' = StorageCall("__init__", "new", result.kind)
    /\ UNCHANGED <<text, fs>>

\* The list object an operation works on.
Stored(on) == IF on = "new" THEN data ELSE result.data

\* An operation can be made: template_list has been built, and a tuple has no
\* operation that changes it.
CanChange(on) ==
    /\ last.op = "__init__"
    /\ on = "source" => result.kind # "tuple"

\* The list object an operation worked on holds d: the other name of that object,
\* if there is one, shows the same content.
Store(on, d) ==
    /\ data' = IF on = "new" \/ result.same THEN d ELSE data
    /\ result' = IF on = "source" \/ result.same THEN [result EXCEPT !.data = d] ELSE result

\* template_list.append(template) or source.append(template)
StoredAppend(on, template) ==
    /\ CanChange(on)
    /\ Store(on, Append(Stored(on), template))
    /\ last' = StorageCall("append", on, template)
    /\ UNCHANGED <<text, fs>>

\* template_list.insert(index, template) or source.insert(index, template)
StoredInsert(on, index, template) ==
    /\ CanChange(on)
    /\ Store(on, ListInsert(Stored(on), index, template))
    /\ last' = StorageCall("insert", on, <<index, template>>)
    /\ UNCHANGED <<text, fs>>

\* del template_list[index] or del source[index]
StoredDelete(on, index) ==
    /\ CanChange(on)
    /\ index < Len(Stored(on))
    /\ Store(on, ListDelete(Stored(on), index))
    /\ last' = StorageCall("__delitem__", on, index)
    /\ UNCHANGED <<text, fs>>

\* template_list.sort() or source.sort()
StoredSort(on) ==
    /\ CanChange(on)
    /\ Store(on, ListSort(Stored(on)))
    /\ last' = StorageCall("sort", on, <<>>)
    /\ UNCHANGED <<text, fs>>

\* template_list.replace(template), or source.replace(template) for a source
\* that is a TemplateList
StoredReplace(on, template) ==
    /\ CanChange(on)
    /\ on = "source" => result.kind = "TemplateList"
    /\ Store(on, ListReplace(Stored(on), template))
    /\ last' = StorageCall("replace", on, template)
    /\ UNCHANGED <<text, fs>>

\* What template_list.extend is given: template_list itself, a TemplateList
\* built from it, the source, or a tuple of templates.
ExtendArguments == {"self", "TemplateList(self)", "source", "tuple"}

\* The longest list extend is followed to.
MaxGrown == 2 * MaxLen + 1

\* template_list.extend(templates): the call starts, iter(templates) is taken.
\* The iterator of a list reads the list as it is at each step; same says that
\* the list it reads is template_list.data.
ExtendStart(what, templates) ==
    /\ CanChange("new")
    /\ what # "tuple" => templates = <<>>
    /\ last' = [StorageCall("extend", "new", what) EXCEPT
                   !.same = what \in {"self", "TemplateList(self)"}
                            \/ (what = "source" /\ result.same),
                   !.items = IF what = "tuple" THEN templates
                             ELSE IF what = "source" THEN result.data ELSE data,
                   !.done = FALSE]
    /\ UNCHANGED <<data, text, result, fs>>

\* One turn of the for loop of extend: the iterator gives its next element, which
\* is appended, or is exhausted, which ends the call.
ExtendStep ==
    /\ last.op = "extend"
    /\ ~last.done
    /\ LET items == IF last.same THEN data ELSE last.items
       IN  IF last.pos < Len(items)
           THEN /\ Len(data) < MaxGrown
                /\ Store("new", Append(data, items[last.pos + 1]))
                /\ last' = [last EXCEPT !.pos = last.pos + 1]
           ELSE /\ last' = [last EXCEPT !.done = TRUE]
                /\ UNCHANGED <<data, result>>
    /\ UNCHANGED <<text, fs>>

NextStorage ==
    \/ Construct
    \/ \E on \in {"new", "source"}, template \in StoredTemplates : StoredAppend(on, template)
    \/ \E on \in {"new", "source"}, index \in 0..MaxLen, template \in StoredTemplates :
           StoredInsert(on, index, template)
    \/ \E on \in {"new", "source"}, index \in 0..MaxLen : StoredDelete(on, index)
    \/ \E on \in {"new", "source"} : StoredSort(on)
    \/ \E on \in {"new", "source"}, template \in StoredTemplates : StoredReplace(on, template)
    \/ \E what \in ExtendArguments, templates \in SeqsUpTo(StoredTemplates, 2) :
           ExtendStart(what, templates)
    \/ ExtendStep

SpecStorage == InitStorage /\ [][NextStorage]_vars

(***************************************************************************)
(* Names and bodies: a list that holds templates without a body is         *)
(* compared, searched, sorted and changed, and bodies are read.  The list  *)
(* is changed and bodies are read while no list returned by a search is    *)
(* held.                                                                   *)
(***************************************************************************)
\* No search has returned a list yet.
Unsearched == result = <<>>

\* template in template_list
Membership(template) ==
    /\ Unsearched
    /\ last' = ListCall("__contains__", template, "", Return(ListContains(data, template)), 0, data)
    /\ UNCHANGED <<data, text, result, fs>>

\* template_list.sort()
SortTemplates ==
    /\ Unsearched
    /\ data' = ListSort(data)
    /\ last' = ListCall("sort", <<>>, "", Return(<<>>), 0, data)
    /\ UNCHANGED <<text, result, fs>>

\* template_list.append(template), before any search
AppendUnsearched(template) == Unsearched /\ AppendTemplate(template)

\* template_list.replace(template), before any search
ReplaceUnsearched(template) == Unsearched /\ ReplaceTemplate(template)

\* template_list.populate(), before any search
PopulateUnsearched(mode, listing) == Unsearched /\ Populate(mode, listing)

\* template_list[index].body, before any search
ReadBodyUnsearched(index, mode) == Unsearched /\ ReadBody(index, mode)

\* str(template_list[index]), before any search
StrUnsearched(index, mode) == Unsearched /\ StrTemplate(index, mode)

NextLazy ==
    \/ \E index \in 0..MaxLen, name \in QueryNames : CompareTemplates(index, name, None)
    \/ \E template \in QueryTemplates : Membership(template)
    \/ SortTemplates
    \/ \E template \in QueryTemplates : AppendUnsearched(template)
    \/ \E template \in QueryTemplates : ReplaceUnsearched(template)
    \/ \E mode \in Modes, listing \in Listings : PopulateUnsearched(mode, listing)
    \/ \E term \in Terms : Contains(term)
    \/ \E term \in Terms : Startswith(term)
    \/ \E term \in Terms : Match(term)
    \/ \E terms \in SeqsUpTo(FindTerms, 2) : Findall(terms)
    \/ \E index \in 0..MaxLen, mode \in Modes : ReadBodyUnsearched(index, mode)
    \/ \E index \in 0..MaxLen, mode \in Modes : StrUnsearched(index, mode)

SpecLazy == InitQuery /\ [][NextLazy]_vars

(***************************************************************************)
(* Round trips (SpecRound).                                                *)
(***************************************************************************)
\* C1: for every Gitignore d whose templates all have a body, the empty list
\* included, Gitignore.loads(d.dumps()) returns, without error, a document equal
\* to d.
C1_DocumentRoundTrip ==
    last.op = "Gitignore.loads" =>
        /\ last.exc = ""
        /\ GitignoreEq(last.val, Gitignore(data))

\* C2 as stated: for every TemplateList c of Templates with explicit bodies,
\* TemplateList.parse(str(c)) returns, without error, a list equal to c.
C2_AsStated ==
    last.op = "TemplateList.parse" =>
        /\ last.exc = ""
        /\ TemplateListEq(last.val, data)

\* A line that is a banner once the white space around it is removed.
BannerLike(line) == MatchTemplateHeader(Strip(line))

\* The lists C2 as amended covers: not empty, every name a run of non-blank
\* characters, every body non-blank and without a banner-like line.
Renderable(d) ==
    /\ Len(d) > 0
    /\ \A i \in 1..Len(d) :
        /\ Capitalize(d[i].name) \in NonSpaceNames
        /\ Strip(d[i].body[1]) # <<>>
        /\ \A l \in 1..Len(SplitLines(d[i].body[1])) :
               ~BannerLike(SplitLines(d[i].body[1])[l])

\* C2 as amended: for every non-empty TemplateList c of Templates whose names hold
\* no white space and whose explicit bodies are non-blank and hold no banner-like
\* line, TemplateList.parse(str(c)) returns, without error, a list equal to c.
C2_CollectionRoundTrip ==
    (last.op = "TemplateList.parse" /\ Renderable(data)) =>
        /\ last.exc = ""
        /\ TemplateListEq(last.val, data)

\* C2 witness: a list of two such templates, the first body without a final
\* newline, has been rendered and parsed back.
C2_Witness ==
    /\ last.op = "TemplateList.parse"
    /\ Renderable(data)
    /\ Len(data) = 2
    /\ data[1].body = Some(<<"x">>)
    /\ data[1].name # data[2].name
    /\ last.exc = ""

\* C3: loading a document with nothing but blank text between its two markers
\* raises nothing and gives a Gitignore of length 0, so that the document dumped
\* from an empty Gitignore loads back equal to it.
C3_EmptyDocumentLoads ==
    (last.op = "Gitignore.loads" /\ data = <<>>) =>
        /\ last.exc = ""
        /\ Len(last.val.template_list) = 0
        /\ GitignoreEq(last.val, Gitignore(data))

\* The bodies a parse returned: one for Template.parse, one for each Template of
\* the list for TemplateList.parse.
ParsedBodies ==
    IF last.op = "Template.parse" THEN <<last.val.body>>
    ELSE [i \in 1..Len(last.val) |-> last.val[i].body]

\* C11: for templates whose bodies are non-blank and hold no banner-like line,
\* Template.parse(header + newline + B) has the body B, nothing added and nothing
\* removed, and each body TemplateList.parse returns for the rendered list is the
\* body text that was rendered.
C11_BodyUnchanged ==
    (/\ last.op \in {"Template.parse", "TemplateList.parse"}
     /\ Renderable(data)
     /\ last.exc = "")
    => ParsedBodies = [i \in 1..Len(data) |-> data[i].body]

(***************************************************************************)
(* The list in use (Spec).                                                 *)
(***************************************************************************)
SameName(a, b) == Lower(a.name) = Lower(b.name)

\* C4: replace(t) puts t in the place of the first element of the same canonical
\* name, the length and every other position unchanged; with no such element it
\* appends t, every existing position unchanged.
C4_Replace ==
    last.op = "replace" =>
        LET b == last.before
            t == last.arg
            same == {i \in 1..Len(b) : SameName(b[i], t)}
        IN  IF same # {}
            THEN LET k == CHOOSE i \in same : \A j \in same : i <= j
                 IN  /\ Len(data) = Len(b)
                     /\ data[k] = t
                     /\ \A j \in 1..Len(b) : j # k => data[j] = b[j]
            ELSE data = Append(b, t)

\* C4 witness: replace(t) on a list with two elements of t's name has changed the
\* first of them.
C4_Witness ==
    /\ last.op = "replace"
    /\ Len(last.before) = 2
    /\ SameName(last.before[1], last.arg)
    /\ SameName(last.before[2], last.arg)
    /\ data[1] # last.before[1]

Unique(d) == \A i, j \in 1..Len(d) : i # j => ~SameName(d[i], d[j])

\* C5 as stated: right after any replace(t) or populate() call no two elements of
\* the list share a canonical name, whatever append, extend, insert and index
\* assignment made of the list before.
C5_AsStated == last.op \in {"replace", "populate"} => Unique(data)

\* C5 as amended: when no two elements of the list share a canonical name before
\* a replace(t) or populate() call, no two do right after it.
C5_UniquenessKept ==
    (last.op \in {"replace", "populate"} /\ Unique(last.before)) => Unique(data)

\* C5 witness: populate() has succeeded on a list that held one of the names of
\* a listing that names it twice.
C5_Witness ==
    /\ last.op = "populate"
    /\ last.exc = ""
    /\ last.arg = <<"Foo", NL, "foo">>
    /\ Len(last.before) = 2
    /\ Unique(last.before)
    /\ last.before[2].name = "foo"

IsRead(op) == op \in {"body", "__str__"}

\* The body a read returned: str() returns it after the banner and a newline.
ReturnedBody == IF last.op = "body" THEN last.val ELSE SliceFrom(last.val, 2)

\* C6: a read of body (str() included) of a Template that has no body yet makes
\* exactly one request, and after a read that succeeded the Template holds the
\* text returned; a read of a Template that has a body (given at construction,
\* assigned, or fetched before) makes no request, returns that body and changes
\* nothing; assigning a body makes no request.
C6_FetchAtMostOnce ==
    /\ IsRead(last.op) =>
        LET i == last.arg + 1
        IN  IF IsNone(last.before[i].body)
            THEN /\ last.nreq = 1
                 /\ last.exc = "" => data[i].body = Some(ReturnedBody)
            ELSE /\ last.nreq = 0
                 /\ last.exc = ""
                 /\ ReturnedBody = last.before[i].body[1]
                 /\ data = last.before
    /\ last.op = "body.setter" =>
        /\ last.nreq = 0
        /\ data[last.arg[1] + 1].body = Some(last.arg[2])

\* The body the catalog gives for a name.
FetchedBody(name) == TemplateParse(StripResponse(RemoteResponse(name))).val.body

\* C6 witness: a Template whose body was fetched has been read again.
C6_Witness ==
    /\ IsRead(last.op)
    /\ last.nreq = 0
    /\ last.before[last.arg + 1].body = FetchedBody(last.before[last.arg + 1].name)

\* C7: a read of body whose request fails leaves the Template without a body and
\* the list as it was, and a next read makes a new request that can succeed; a
\* populate() that fails leaves the list with the elements it had.
C7_FailureKeepsState ==
    /\ (IsRead(last.op) /\ last.exc # "") =>
        /\ data = last.before
        /\ IsNone(data[last.arg + 1].body)
        /\ LET next == TemplateBody(data[last.arg + 1], "ok")
           IN  next.nreq = 1 /\ next.exc = "" /\ ~IsNone(next.self.body)
    /\ (last.op = "populate" /\ last.exc # "") => data = last.before

\* C7 witness: a read of the body of the second element has failed.
C7_Witness ==
    /\ last.op = "body"
    /\ last.exc = "ApiError"
    /\ last.arg = 1
    /\ last.mode = "HTTPError"

\* The message of the ApiError for each failure of a request to url.
FailureMessage(mode, url) ==
    CASE mode = "ConnectionError" -> "Failed to connect to '" \o url \o "'"
      [] mode = "Timeout" -> "Connection to '" \o url \o "' timed out"
      [] mode = "HTTPError" -> "Failed to fetch '" \o url \o "' because " \o Reason

\* The URL a call asks for.
RequestUrl ==
    IF last.op = "populate" THEN BaseUrl \o "/list"
    ELSE BaseUrl \o "/" \o last.before[last.arg + 1].name

\* C8: a request of Template.body or of populate() that ends in a connection
\* failure, a timeout or a failure status raises ApiError, with 'Failed to
\* connect', 'timed out' and 'Failed to fetch ... because <reason>' in turn, three
\* different messages, and no other exception.
C8_FailureTaxonomy ==
    (/\ last.op \in {"body", "__str__", "populate"}
     /\ last.nreq = 1
     /\ last.mode # "ok") =>
        /\ last.exc = "ApiError"
        /\ last.msg = FailureMessage(last.mode, RequestUrl)
        /\ \A m \in Modes \ {"ok", last.mode} : last.msg # FailureMessage(m, RequestUrl)

\* C8 witness: populate() has met a timeout.
C8_Witness ==
    /\ last.op = "populate"
    /\ last.mode = "Timeout"
    /\ last.exc = "ApiError"
    /\ Len(data) = 2

(***************************************************************************)
(* Template.parse: the error taxonomy and the body.                        *)
(***************************************************************************)
IsBlankLine(line) == \A i \in 1..Len(line) : IsSpace(line[i])

\* The outcome the taxonomy gives for the lines of a text: "" is a Template.
Taxonomy(lines) ==
    LET headers == FindMetadata(lines, TemplateHeaderPattern)
    IN  IF Len(headers) = 0 THEN "Missing header"
        ELSE IF Len(headers) > 1 THEN "Multiple headers"
        ELSE IF \A i \in (headers[1] + 2)..Len(lines) : IsBlankLine(lines[i])
             THEN "Missing body"
        ELSE ""

FollowsTaxonomy(lines) ==
    last.op = "Template.parse" =>
        /\ last.msg = Taxonomy(lines)
        /\ last.exc = (IF Taxonomy(lines) = "" THEN "" ELSE "ParseError")

RECURSIVE DropLeadingBlank(_)
DropLeadingBlank(lines) ==
    IF lines = <<>> THEN lines
    ELSE IF IsBlankLine(Head(lines)) THEN DropLeadingBlank(Tail(lines)) ELSE lines

RECURSIVE DropTrailingBlank(_)
DropTrailingBlank(lines) ==
    IF lines = <<>> THEN lines
    ELSE IF IsBlankLine(lines[Len(lines)])
         THEN DropTrailingBlank(SubSeq(lines, 1, Len(lines) - 1))
         ELSE lines

\* The body C10 describes: the lines after the header line, without the blank
\* lines directly after the header and at the end (white space at the end of the
\* text counts as blank), each ended by one newline.
DescribedBody(t) ==
    LET lines == SplitLines(RStrip(t))
        headers == FindMetadata(lines, TemplateHeaderPattern)
    IN  JoinEach(DropTrailingBlank(DropLeadingBlank(SliceFrom(lines, headers[1] + 1))))

\* C10: for a text with exactly one header line, Template.parse returns as body the
\* lines after the header, embedded blank lines kept, the blank lines directly
\* after the header and at the end removed, ending in one newline.
C10_BodyExtraction ==
    (/\ last.op = "Template.parse"
     /\ last.exc = ""
     /\ Len(FindMetadata(SplitLines(text), TemplateHeaderPattern)) = 1)
    => last.val.body = Some(DescribedBody(text))

(***************************************************************************)
(* TemplateList.parse: spans and their outcomes.                           *)
(***************************************************************************)
\* The lines of each span: from a header line to just before the next one, the
\* last span to the end.
Spans(lines) ==
    LET headers == FindMetadata(lines, TemplateHeaderPattern)
    IN  [i \in 1..Len(headers) |->
            Slice(lines, headers[i],
                  IF i < Len(headers) THEN headers[i + 1] ELSE Len(lines))]

\* C12 as stated: a text with no header line among its lines raises 'missing
\* template headers'; otherwise the call raises ParseError when the body of some
\* span is blank, and else returns one Template per header line, in the order of
\* the header lines.
C12_AsStated ==
    last.op = "TemplateList.parse" =>
        LET lines == SplitLines(text)
            spans == Spans(lines)
        IN  IF Len(spans) = 0
            THEN last.exc = "ParseError" /\ last.msg = "Missing template headers"
            ELSE IF \E i \in 1..Len(spans) :
                        \A l \in 2..Len(spans[i]) : IsBlankLine(spans[i][l])
            THEN last.exc = "ParseError" /\ last.val = <<>>
            ELSE /\ last.exc = ""
                 /\ Len(last.val) = Len(spans)
                 /\ \A i \in 1..Len(spans) :
                        last.val[i].name = Lower(HeaderGroup(spans[i][1]))

\* C12 as amended: the header lines are those of the text with the white space
\* around it removed; with none the call raises 'missing template headers';
\* otherwise each span is parsed by Template.parse, and the call raises the
\* ParseError of the first span that does not parse (a blank body, or several
\* headers when the span ends in a banner followed by white space) and returns
\* no list, and else returns the Templates of the spans in the order of the
\* header lines.
C12_ListParse ==
    last.op = "TemplateList.parse" =>
        LET lines == SplitLines(Strip(text))
            spans == Spans(lines)
            parsed == [i \in 1..Len(spans) |-> TemplateParse(JoinEach(spans[i]))]
            failed == {i \in 1..Len(spans) : parsed[i].exc # ""}
        IN  IF Len(spans) = 0
            THEN last.exc = "ParseError" /\ last.msg = "Missing template headers"
            ELSE IF failed # {}
            THEN LET first == CHOOSE i \in failed : \A j \in failed : i <= j
                 IN  /\ last.exc = "ParseError"
                     /\ last.msg = parsed[first].msg
                     /\ last.val = <<>>
            ELSE /\ last.exc = ""
                 /\ last.val = [i \in 1..Len(spans) |-> parsed[i].val]
                 /\ \A i \in 1..Len(spans) :
                        last.val[i].name = Lower(HeaderGroup(spans[i][1]))

\* C12 witness: a text of two blocks has been parsed into two Templates, in the
\* order of their headers.
C12_Witness ==
    /\ last.op = "TemplateList.parse"
    /\ last.exc = ""
    /\ Len(last.val) = 2
    /\ last.val[1].name = "foo"
    /\ last.val[2].name = "bar"

\* A span that ends in a banner followed by white space has several headers for
\* Template.parse.
C12_SpanWithTwoHeaders ==
    /\ last.op = "TemplateList.parse"
    /\ last.msg = "Multiple headers"

(***************************************************************************)
(* Gitignore.loads and Gitignore.load: the marker lines.                   *)
(***************************************************************************)
\* The number of lines of the text that are the given marker line.
MarkerLines(marker) ==
    Cardinality({i \in 1..Len(SplitLines(text)) : SplitLines(text)[i] = <<marker>>})

\* The messages of the ParseError for a missing or repeated marker.
MarkerMessages ==
    { "Missing ignoro header and footer", "Missing ignoro header",
      "Multiple ignoro headers", "Missing ignoro footer", "Multiple ignoro footers" }

\* C13: for a text that has not exactly one header marker line and exactly one
\* footer marker line, Gitignore.loads and Gitignore.load raise ParseError and
\* return no document; the message of load names the file path, the message of
\* loads the input, each followed by the reason.
C13_StrictMarkers ==
    (/\ last.op \in {"Gitignore.loads", "Gitignore.load"}
     /\ (MarkerLines(BelowLine) # 1 \/ MarkerLines(AboveLine) # 1))
    => /\ last.exc = "ParseError"
       /\ last.val = <<>>
       /\ \E m \in MarkerMessages :
              last.msg = (IF last.op = "Gitignore.load"
                          THEN "File '" \o PathName \o "' is invalid: " \o m
                          ELSE "Input is invalid: " \o m)

\* C13 witness: a file with one header marker line and two footer marker lines
\* has been loaded.
C13_Witness ==
    /\ last.op = "Gitignore.load"
    /\ MarkerLines(BelowLine) = 1
    /\ MarkerLines(AboveLine) = 2
    /\ fs.content = text
    /\ last.exc = "ParseError"

(***************************************************************************)
(* Gitignore.dump and the file (SpecFile).                                 *)
(***************************************************************************)
\* A Template of the list had no body and the requests of the call failed.
FetchFails(d, mode) == mode # "ok" /\ \E i \in 1..Len(d) : IsNone(d[i].body)

\* C14: dump(path) either returns and the file holds exactly dumps(), or raises
\* and the path holds what it held before; a path that is a directory raises
\* IsADirectoryError, a file that may not be written PermissionError, and a body
\* that cannot be fetched ApiError.
C14_DumpAllOrNothing ==
    last.op = "Gitignore.dump" =>
        LET b == last.before
        IN  /\ IF last.exc = ""
               THEN fs.kind = "file" /\ fs.content = GitignoreStr(Gitignore(data))
               ELSE fs = b.fs
            /\ b.fs.kind = "dir" => last.exc = "IsADirectoryError"
            /\ (b.fs.kind \in {"file", "absent"} /\ FetchFails(b.data, last.mode))
                   => last.exc = "ApiError"
            /\ (b.fs.kind \in {"file", "absent"} /\ ~b.fs.writable
                    /\ ~FetchFails(b.data, last.mode))
                   => last.exc = "PermissionError"

(***************************************************************************)
(* The body of a Template is never empty (Spec).                           *)
(***************************************************************************)
\* C15: every read of body that succeeds (str() included), of a Template built
\* with or without a body, assigned a body or fetched, returns a non-empty text.
C15_BodyNonEmpty ==
    (IsRead(last.op) /\ last.exc = "") => ReturnedBody # <<>>

(***************************************************************************)
(* Comparisons and searches (SpecQuery).                                   *)
(***************************************************************************)
\* Two names are equal ignoring case.
CaseFoldEq(m, n) == LowerChars(Chars(m)) = LowerChars(Chars(n))

\* The terms of two findall calls are equal ignoring case, one by one.
SameTerms(ts, us) ==
    /\ Len(ts) = Len(us)
    /\ \A k \in 1..Len(ts) : CaseFoldEq(ts[k], us[k])

\* C16: a Template of the list and Template(name, body) are equal exactly when
\* their names are equal ignoring case, whatever their bodies; when they are
\* equal their hashes are equal and neither is before the other in the order;
\* contains, startswith, match and findall give the same result for every
\* spelling of the search terms that differs in case only.
C16_CaseInsensitiveIdentity ==
    /\ last.op = "compare" =>
        LET a == data[last.arg[1] + 1]
            v == last.val
        IN  /\ v.eq <=> CaseFoldEq(a.name, last.arg[2])
            /\ v.eq => /\ v.hash[1] = v.hash[2]
                       /\ ~v.lt /\ ~v.gt /\ v.le /\ v.ge
    /\ last.op = "contains" =>
        \A u \in Terms : CaseFoldEq(last.arg, u) =>
            last.val = Objects(NewList(data, ContainsPositions(data, u)))
    /\ last.op = "startswith" =>
        \A u \in Terms : CaseFoldEq(last.arg, u) =>
            last.val = Objects(NewList(data, StartswithPositions(data, u)))
    /\ last.op = "match" =>
        /\ \A u \in Terms : CaseFoldEq(last.arg, u) => last.val = ListMatch(data, u)
        /\ IsNone(last.val) <=> \A i \in 1..Len(data) : ~CaseFoldEq(data[i].name, last.arg)
    /\ last.op = "findall" =>
        \A us \in SeqsUpTo(FindTerms, 2) : SameTerms(last.arg, us) =>
            last.val = Objects(NewList(data, FindallPositions(data, us)))

\* C16 witness: a Template named foo that has a body has been compared with
\* Template("FOO", ...) and found equal.
C16_Witness ==
    /\ last.op = "compare"
    /\ last.arg[2] = "FOO"
    /\ ~IsNone(data[last.arg[1] + 1].body)
    /\ last.val.eq

\* C17: a != b returns a boolean, the negation of a == b, for two Templates, for
\* two TemplateLists and for two Gitignore documents.
C17_NotEqual ==
    /\ last.op = "Template.__ne__" =>
        /\ last.exc = ""
        /\ last.val = ~CaseFoldEq(data[last.arg[1] + 1].name, last.arg[2])
    /\ last.op = "TemplateList.__ne__" =>
        /\ last.exc = ""
        /\ last.val = ~TemplateListEq(data, Objects(result))
    /\ last.op = "Gitignore.__ne__" =>
        /\ last.exc = ""
        /\ last.val = ~TemplateListEq(data, Objects(result))

\* The k-th smallest member of a set of positions.
Kth(positions, k) == CHOOSE i \in positions : Cardinality({j \in positions : j <= i}) = k

RECURSIVE Flatten(_)
Flatten(seqs) == IF seqs = <<>> THEN <<>> ELSE Head(seqs) \o Flatten(Tail(seqs))

\* C20: findall(terms) raises nothing and returns, for each term in the order
\* given, the templates whose name equals the term ignoring case, in the order of
\* the source; a term with no match adds nothing, and with no match at all the
\* result is an empty list.
C20_Findall ==
    last.op = "findall" =>
        LET terms == last.arg
            each == [k \in 1..Len(terms) |->
                        SelectSeq(data, LAMBDA t : CaseFoldEq(t.name, terms[k]))]
        IN  /\ last.exc = ""
            /\ last.val = Flatten(each)
            /\ (\A k \in 1..Len(terms) : each[k] = <<>>) => last.val = <<>>
            /\ data = last.before

\* C20 witness: findall(["bar", "FOO"]) on the list [foo, bar] has returned
\* [bar, foo].
C20_Witness ==
    /\ last.op = "findall"
    /\ last.arg = <<"bar", "FOO">>
    /\ Len(data) = 2
    /\ data[1].name = "foo"
    /\ Len(last.val) = 2
    /\ last.val[1].name = "bar"
    /\ last.val[2].name = "foo"

(***************************************************************************)
(* replace twice (Spec).                                                   *)
(***************************************************************************)
\* C18: a second replace(t) right after a replace(t) leaves the list with the
\* same length, the same names in the same order and the same bodies.
C18_ReplaceIdempotent ==
    last.op = "replace" => ListReplace(data, last.arg) = data

\* C18 witness: replace(t) has been called on a list of two templates that held t
\* at its second place, as a replace(t) before it left it.
C18_Witness ==
    /\ last.op = "replace"
    /\ Len(last.before) = 2
    /\ last.before[2] = last.arg
    /\ ~SameName(last.before[1], last.arg)
    /\ data = last.before

(***************************************************************************)
(* populate and TemplateList(populate=True) (Spec).                        *)
(***************************************************************************)
\* The names of the name list: response.text.splitlines().
CatalogNames(listing) ==
    LET lines == SplitLines(listing)
    IN  [i \in 1..Len(lines) |-> LineStr(lines[i])]

\* The lower-cased names, a name that repeats an earlier one (case ignored) left out.
FirstOccurrences(names) ==
    LET lower == [i \in 1..Len(names) |-> Lower(names[i])]
    IN  [k \in 1..Len(SelectSeq(Indices(names), LAMBDA i : \A j \in 1..(i - 1) : lower[j] # lower[i]))
            |-> lower[SelectSeq(Indices(names),
                                LAMBDA i : \A j \in 1..(i - 1) : lower[j] # lower[i])[k]]]

\* A populate() or a TemplateList(populate=True) that returned, on an empty list.
PopulatedEmpty ==
    /\ last.op \in {"populate", "__init__"}
    /\ last.exc = ""
    /\ last.before = <<>>

\* C21 as stated: after populate() on an empty TemplateList, and after
\* TemplateList(populate=True), the names of the list are the catalog names in
\* catalog order and every Template is unresolved.
C21_AsStated ==
    PopulatedEmpty =>
        /\ Names(data) = CatalogNames(last.arg)
        /\ \A i \in 1..Len(data) : IsNone(data[i].body)

\* C21: after populate() on an empty TemplateList, and after
\* TemplateList(populate=True), the names of the list are the lower-cased catalog
\* names in catalog order, a name that repeats an earlier one (case ignored) adding
\* no element; every Template is unresolved, and one request was made.
C21_Populate ==
    PopulatedEmpty =>
        /\ Names(data) = FirstOccurrences(CatalogNames(last.arg))
        /\ \A i \in 1..Len(data) : IsNone(data[i].body)
        /\ last.nreq = 1

\* C21 witness: TemplateList(populate=True) returned a list of two templates for a
\* catalog of two names.
C21_Witness ==
    /\ last.op = "__init__"
    /\ last.exc = ""
    /\ Len(CatalogNames(last.arg)) = 2
    /\ Len(data) = 2

\* A populate() on an empty list has left one element for a catalog of two names.
C21_RepeatedName ==
    /\ PopulatedEmpty
    /\ last.op = "populate"
    /\ Len(CatalogNames(last.arg)) = 2
    /\ Len(data) = 1

(***************************************************************************)
(* The commands (SpecCli).                                                 *)
(***************************************************************************)
\* The document the path held before the last run, as Gitignore.load reads it.
LoadedBefore == GitignoreLoad(last.before.fs)

\* The document the path holds now, as Gitignore.load reads it.
LoadedNow == GitignoreLoad(fs)

\* The elements of a sequence.
Range(seq) == {seq[i] : i \in 1..Len(seq)}

\* The last run is a command that wrote its document to the path: the document
\* was read (for add and remove), the requests succeeded, a name matched, the
\* user did not abort, and the path is a file that can be written.
RanToWrite(op) ==
    /\ last.op = op
    /\ ~last.echo
    /\ last.before.fs.kind = "file"
    /\ last.before.fs.writable
    /\ LoadedBefore.exc = ""
    /\ op = "add" => /\ last.lmode = "ok"
                     /\ last.mode = "ok"
                     /\ Range(last.arg) \cap Range(CatalogNames(CliListing)) # {}

\* What add leaves in the file (now, as read back), given the document it loaded
\* (before): the templates the
\* document held, in their order, followed by the requested catalog names it did
\* not hold, each once; the user has been asked about every requested name the
\* document held; such an entry has the remote body when the user said yes and
\* its previous body when the user said no, and an added entry has the remote
\* body.
Merged(before, now) ==
    LET wanted == Range(last.arg) \cap Range(CatalogNames(CliListing))
        added == SelectSeq(FirstOccurrences(last.arg),
                           LAMBDA n : n \in wanted /\ n \notin Range(Names(before)))
    IN  /\ last.exit = 0
        /\ now.exc = ""
        /\ Names(now.val.template_list) = Names(before) \o added
        /\ \A i \in 1..Len(before) :
               /\ before[i].name \in wanted => before[i].name \in Range(last.asked)
               /\ now.val.template_list[i].body =
                      IF before[i].name \in wanted /\ before[i].name \in last.yes
                      THEN FetchedBody(before[i].name)
                      ELSE before[i].body
        /\ \A k \in 1..Len(added) :
               now.val.template_list[Len(before) + k].body = FetchedBody(added[k])

C22_Declined ==
    /\ RanToWrite("add")
    /\ last.arg = <<"foo">>
    /\ last.yes = {}
    /\ last.asked = <<"foo">>
    /\ last.exit = 0
    /\ LoadedNow.val.template_list[1].body = LoadedBefore.val.template_list[1].body

\* The templates of a list whose names are not among the names given.
Without(d, names) == SelectSeq(d, LAMBDA t : t.name \notin Range(names))

\* C23: when the path holds the dump of a document d and remove is run with
\* names of templates of d (each given once), some template being left, the
\* command exits with
\* code 0, the text written is the dump of a document holding the templates of d
\* that were not named, and loading the path and dumping the document loaded
\* gives that text again.
C23_RemoveLeavesDump ==
    RanToWrite("remove") =>
        \A d \in CliDocuments :
            ( /\ last.before.fs.content = GitignoreStr(Gitignore(d))
              /\ Unique(d)
              /\ Range(last.arg) \subseteq Range(Names(d))
              /\ Cardinality(Range(last.arg)) = Len(last.arg)
              /\ Without(d, last.arg) # <<>> ) =>
                /\ last.exit = 0
                /\ fs.content = GitignoreStr(Gitignore(Without(d, last.arg)))
                /\ \A now \in {LoadedNow} :
                       /\ now.exc = ""
                       /\ GitignoreStr(now.val) = fs.content

\* The line remove prints for a name the document does not hold.
NotFoundLine(name) ==
    "Could not remove from gitignore file: Template '" \o name
        \o "' does not exist in gitignore file."

\* C24: a remove that loaded a document and was given a name that is not the
\* name of a template of that document reports the name as not found and exits
\* with code 1.
C24_RemoveNotFoundFails ==
    (last.op = "remove" /\ LoadedBefore.exc = "") =>
        \A d \in {LoadedBefore.val.template_list} :
            \A i \in 1..Len(last.arg) :
                last.arg[i] \notin Range(Names(d)) =>
                    /\ NotFoundLine(last.arg[i]) \in Range(last.err)
                    /\ last.exit = 1

\* A remove given a name the document does not hold reports it, rewrites the
\* file and exits with code 0.
C24_ReportedAndExitZero ==
    /\ RanToWrite("remove")
    /\ last.arg = <<"x">>
    /\ last.err = <<NotFoundLine("x")>>
    /\ last.exit = 0
    /\ Names(LoadedNow.val.template_list) = Names(LoadedBefore.val.template_list)

\* The last run is a create, add or remove that wrote the path and exited with
\* code 0.
Wrote ==
    /\ last.op \in {"create", "add", "remove"}
    /\ ~last.echo
    /\ last.exit = 0

\* C25: after a sequence of create, add and remove runs that each wrote the path
\* and exited with code 0, Gitignore.load of the path returns a document, and
\* its template names are those of the document the last run left (possibly
\* none).
C25_WrittenFileLoads ==
    (Wrote /\ fs.readable) =>
        \A now \in {LoadedNow} :
            /\ now.exc = ""
            /\ Names(now.val.template_list) = Names(data)

\* A remove of the only template exits with code 0 and leaves a file that
\* Gitignore.load rejects.
C25_EmptyDocumentRejected ==
    /\ Wrote
    /\ last.op = "remove"
    /\ data = <<>>
    /\ fs.content = GitignoreStr(Gitignore(<<>>))
    /\ LoadedNow.exc = "ParseError"

(***************************************************************************)
(* The lines between the markers (SpecRound)                               *)
(***************************************************************************)
\* The lines of a text that lie strictly between its first header marker line
\* and its first footer marker line, each followed by a newline.
BetweenMarkers(t) ==
    LET all == SplitLines(t)
        headers == FindMetadata(all, BelowPattern)
        footers == FindMetadata(all, AbovePattern)
    IN  JoinEach(Slice(all, headers[1] + 1, footers[1]))

\* C26: for blank lines followed by the dump of a document that loads,
\* Gitignore.loads hands TemplateList.parse the lines strictly between the
\* header marker line and the footer marker line, and returns the templates it
\* returns for the dump alone.
C26_SameLineNumbering ==
    last.op = "Gitignore.loads after blank lines" =>
        \A alone \in {GitignoreLoads(GitignoreStr(Gitignore(data)))} :
            alone.exc = "" =>
                /\ GitignoreParseContent(text) = BetweenMarkers(text)
                /\ last.exc = ""
                /\ last.val = alone.val

\* One blank line before the dump of foo: the footer marker line ends up in the
\* body of foo.
C26_FooterInBody ==
    /\ last.op = "Gitignore.loads after blank lines"
    /\ text = <<NL>> \o GitignoreStr(Gitignore(data))
    /\ Names(data) = <<"foo">>
    /\ data[1].body = Some(<<"x", NL>>)
    /\ last.exc = ""
    /\ last.val.template_list[1].body = Some(<<"x", NL, NL, AboveLine, NL>>)

\* The lines of a text that precede its header marker block (the line that names
\* the tool, when it is there, and the header marker line), followed by those
\* that follow its footer marker line.
OutsideLines(t) ==
    LET all == SplitLines(t)
        headers == FindMetadata(all, BelowPattern)
        footers == FindMetadata(all, AbovePattern)
        block == IF headers[1] > 0 /\ all[headers[1]] = <<CreatedLine>>
                 THEN headers[1] - 1 ELSE headers[1]
    IN  Slice(all, 0, block) \o Slice(all, footers[1] + 1, Len(all))

\* The elements of one sequence are found, in their order, in another.
RECURSIVE IsSubsequence(_, _)
IsSubsequence(part, whole) ==
    IF part = <<>> THEN TRUE
    ELSE IF whole = <<>> THEN FALSE
    ELSE IF Head(part) = Head(whole) THEN IsSubsequence(Tail(part), Tail(whole))
    ELSE IsSubsequence(part, Tail(whole))

\* C27: after an add or a remove that loaded the file, wrote it and exited with
\* code 0, every line the file held before its header marker block or after its
\* footer marker line is in the rewritten file, in the same order.
C27_OutsideKept ==
    (Wrote /\ last.op \in {"add", "remove"}) =>
        IsSubsequence(OutsideLines(last.before.fs.content), SplitLines(fs.content))

\* A remove on a file with a line of the user's before the header marker block
\* and one after the footer marker line leaves a file without them.
C27_OutsideDropped ==
    /\ Wrote
    /\ last.op = "remove"
    /\ OutsideLines(last.before.fs.content) = << <<"mine">>, <<"yours">> >>
    /\ OutsideLines(fs.content) = <<>>

(***************************************************************************)
(* The storage of a TemplateList (SpecStorage)                             *)
(***************************************************************************)
\* The operations that change a list.
Changes == {"append", "insert", "__delitem__", "sort", "replace", "extend"}

\* C28: after template_list = TemplateList(source) for a built-in list or a
\* TemplateList, an append, extend, replace, insert, delete or sort on
\* template_list leaves the source with the elements it had, in their order, and
\* one on the source leaves template_list with the elements it had.
C28_OwnStorage ==
    (last.op \in Changes /\ result.kind \in {"list", "TemplateList"}) =>
        /\ last.on = "new" => result.data = last.before.source
        /\ last.on = "source" => data = last.before.data

\* An append to a TemplateList built from a built-in list shows in the list.
C28_AppendShows ==
    /\ last.op = "append"
    /\ last.on = "new"
    /\ result.kind = "list"
    /\ result.data = Append(last.before.source, last.arg)

\* A TemplateList built from a tuple has a list of its own.
C28_TupleCopied ==
    (last.op \in Changes /\ result.kind = "tuple") => result.data = last.before.source

\* C29: template_list.extend(templates) appends no more elements than
\* templates held when the call started, and once it has ended template_list
\* holds what it held followed by those elements, in order, also when templates
\* is template_list itself, a TemplateList built from it, or the source it was
\* built from.
C29_ExtendAppendsArgument ==
    last.op = "extend" =>
        /\ Len(data) - Len(last.before.data) <= Len(last.items)
        /\ last.done => data = last.before.data \o last.items

\* extend(template_list) on a list of one template has appended two and has not
\* ended.
C29_SelfExtendGoesOn ==
    /\ last.op = "extend"
    /\ last.arg = "self"
    /\ Len(last.before.data) = 1
    /\ Len(data) = 3
    /\ ~last.done

\* extend of a tuple of templates ends and appends the tuple.
C29_TupleAppended ==
    (last.op = "extend" /\ last.arg = "tuple") =>
        /\ Len(data) - Len(last.before.data) <= Len(last.items)
        /\ last.done => data = last.before.data \o last.items

(***************************************************************************)
(* Names and bodies (SpecLazy)                                             *)
(***************************************************************************)
\* No template of the list has a body yet.
Unresolved(d) == \A i \in 1..Len(d) : IsNone(d[i].body)

\* The operations that need only names.
NameOperations ==
    { "compare", "__contains__", "sort", "append", "replace", "populate",
      "contains", "startswith", "match", "findall" }

\* The template given to the last call, if it takes one, has no body.
GivenUnresolved ==
    last.op \in {"__contains__", "append", "replace"} => IsNone(last.arg.body)

\* C30: on a list of templates without a body, equality, hashing, ordering,
\* sort, a membership test, append, replace, contains, startswith, match, findall
\* and populate make no request for a body (populate makes the one request for
\* the name list) and leave every template of the list, and every template they
\* return, without a body; reading the body of such a template, or str() of it,
\* makes one request, and gives the template its body when the request succeeds.
C30_NamesNeedNoBody ==
    /\ (last.op \in NameOperations /\ Unresolved(last.before) /\ GivenUnresolved) =>
           /\ last.nreq = IF last.op = "populate" THEN 1 ELSE 0
           /\ Unresolved(data)
           /\ Unresolved(Objects(result))
           /\ (last.op = "match" /\ last.val # None) => IsNone(last.val[1].body)
    /\ (last.op \in {"body", "__str__"} /\ IsNone(last.before[last.arg + 1].body)) =>
           /\ last.nreq = 1
           /\ last.exc = "" => ~IsNone(data[last.arg + 1].body)

\* C30 witness: populate has added names to a list of templates without a body,
\* and no template of the list has a body.
C30_Witness ==
    /\ last.op = "populate"
    /\ last.exc = ""
    /\ last.before # <<>>
    /\ Unresolved(last.before)
    /\ Len(data) > Len(last.before)
    /\ Unresolved(data)
    /\ last.nreq = 1

\* A sort, a search and a read: sort has reordered templates without a body, a
\* search has returned some, and a read of a body has fetched it.
C30_Sorted ==
    /\ last.op = "sort"
    /\ data # last.before
    /\ Unresolved(data)

C30_Found ==
    /\ last.op = "findall"
    /\ Len(result) = 2
    /\ Unresolved(Objects(result))

C30_Fetched ==
    /\ last.op = "body"
    /\ IsNone(last.before[last.arg + 1].body)
    /\ ~IsNone(data[last.arg + 1].body)
    /\ last.nreq = 1

====
